---- MODULE Spec2Model ----
(***************************************************************************)
(* tic2json: streaming decoder of ENEDIS TIC frames.                       *)
(*                                                                         *)
(* The model follows the code of three dialects (V01 "historique", V02     *)
(* "standard", V01PME): the flex scanners working byte by byte on the      *)
(* input, the bison LALR(1) parsers with their error recovery, the field   *)
(* constructor and the JSON sink callbacks.                                 *)
(***************************************************************************)
EXTENDS Integers, Sequences, FiniteSets, TLC

\* ------------------------------------------------------------------------
\* Bounds of the exploration
\* ------------------------------------------------------------------------

\* number of chunks the reader delivers before it reports end of input
MaxChunks == 4

\* largest value given to the -s option
MaxSkip == 1

\* largest number of blocks in a day-profile payload
MaxBlocks == 13

\* largest size of the buffer given to the print-to-buffer build
MaxBuf == 40

\* ------------------------------------------------------------------------
\* Bytes and byte classes
\* ------------------------------------------------------------------------

NUL == 0
STX == 2
ETX == 3
EOT == 4
HT == 9
LF == 10
CR == 13
SP == 32

Dialects == {"V01", "V02", "V01PME"}

Byte == 0..127

Digit == 48..57

\* DATAC of each scanner
DATAC(d) == IF d = "V01" THEN 33..126 ELSE 32..126

\* CHKSUM of the three scanners
CHKSUM == 32..95

\* SEP of each scanner
SEP(d) == IF d = "V02" THEN HT ELSE SP

\* the literal pattern s as a sequence of one-byte classes
Lit(s) == [i \in 1..Len(s) |-> {s[i]}]

RECURSIVE SumBytes(_)
SumBytes(s) == IF s = <<>> THEN 0 ELSE s[1] + SumBytes(Tail(s))

IsPrefix(p, s) == Len(p) <= Len(s) /\ SubSeq(s, 1, Len(p)) = p

\* HORODATE of the V02 scanner: [ EeHh][0-9]{12}
HorodateV02 == <<{32, 69, 101, 72, 104}>> \o [i \in 1..12 |-> Digit]

\* HORODATE of the V01PME scanner: JJ/MM/AA HH:MM:SS
HorodatePME ==
  <<Digit, Digit, {47}, Digit, Digit, {47}, Digit, Digit, {32},
    Digit, Digit, {58}, Digit, Digit, {58}, Digit, Digit>>

\* CTRLTRAIL of the V01PME scanner: {SEP}{CHKSUM}\x0d
CTRLTRAIL == <<{SP}, CHKSUM, {CR}>>

\* Label rules of src/src/ticv02.l lines 94-164, in file order: pattern and returned token.
LabelsV02 ==
  <<
     [pat |-> Lit(<<65,68,83,67>>), tok |-> "ET_ADSC"],
     [pat |-> Lit(<<86,84,73,67>>), tok |-> "ET_VTIC"],
     [pat |-> Lit(<<68,65,84,69>>), tok |-> "ET_DATE"],
     [pat |-> Lit(<<78,71,84,70>>), tok |-> "ET_NGTF"],
     [pat |-> Lit(<<76,84,65,82,70>>), tok |-> "ET_LTARF"],
     [pat |-> Lit(<<69,65,83,84>>), tok |-> "ET_EAST"],
     [pat |-> Lit(<<69,65,83,70,48,49>>), tok |-> "ET_EASF01"],
     [pat |-> Lit(<<69,65,83,70,48,50>>), tok |-> "ET_EASF02"],
     [pat |-> Lit(<<69,65,83,70,48,51>>), tok |-> "ET_EASF03"],
     [pat |-> Lit(<<69,65,83,70,48,52>>), tok |-> "ET_EASF04"],
     [pat |-> Lit(<<69,65,83,70,48,53>>), tok |-> "ET_EASF05"],
     [pat |-> Lit(<<69,65,83,70,48,54>>), tok |-> "ET_EASF06"],
     [pat |-> Lit(<<69,65,83,70,48,55>>), tok |-> "ET_EASF07"],
     [pat |-> Lit(<<69,65,83,70,48,56>>), tok |-> "ET_EASF08"],
     [pat |-> Lit(<<69,65,83,70,48,57>>), tok |-> "ET_EASF09"],
     [pat |-> Lit(<<69,65,83,70,49,48>>), tok |-> "ET_EASF10"],
     [pat |-> Lit(<<69,65,83,68,48,49>>), tok |-> "ET_EASD01"],
     [pat |-> Lit(<<69,65,83,68,48,50>>), tok |-> "ET_EASD02"],
     [pat |-> Lit(<<69,65,83,68,48,51>>), tok |-> "ET_EASD03"],
     [pat |-> Lit(<<69,65,83,68,48,52>>), tok |-> "ET_EASD04"],
     [pat |-> Lit(<<69,65,73,84>>), tok |-> "ET_EAIT"],
     [pat |-> Lit(<<69,82,81,49>>), tok |-> "ET_ERQ1"],
     [pat |-> Lit(<<69,82,81,50>>), tok |-> "ET_ERQ2"],
     [pat |-> Lit(<<69,82,81,51>>), tok |-> "ET_ERQ3"],
     [pat |-> Lit(<<69,82,81,52>>), tok |-> "ET_ERQ4"],
     [pat |-> Lit(<<73,82,77,83,49>>), tok |-> "ET_IRMS1"],
     [pat |-> Lit(<<73,82,77,83,50>>), tok |-> "ET_IRMS2"],
     [pat |-> Lit(<<73,82,77,83,51>>), tok |-> "ET_IRMS3"],
     [pat |-> Lit(<<85,82,77,83,49>>), tok |-> "ET_URMS1"],
     [pat |-> Lit(<<85,82,77,83,50>>), tok |-> "ET_URMS2"],
     [pat |-> Lit(<<85,82,77,83,51>>), tok |-> "ET_URMS3"],
     [pat |-> Lit(<<80,82,69,70>>), tok |-> "ET_PREF"],
     [pat |-> Lit(<<80,67,79,85,80>>), tok |-> "ET_PCOUP"],
     [pat |-> Lit(<<83,73,78,83,84,83>>), tok |-> "ET_SINSTS"],
     [pat |-> Lit(<<83,73,78,83,84,83,49>>), tok |-> "ET_SINSTS1"],
     [pat |-> Lit(<<83,73,78,83,84,83,50>>), tok |-> "ET_SINSTS2"],
     [pat |-> Lit(<<83,73,78,83,84,83,51>>), tok |-> "ET_SINSTS3"],
     [pat |-> Lit(<<83,77,65,88,83,78>>), tok |-> "ET_SMAXSN"],
     [pat |-> Lit(<<83,77,65,88,83,78,49>>), tok |-> "ET_SMAXSN1"],
     [pat |-> Lit(<<83,77,65,88,83,78,50>>), tok |-> "ET_SMAXSN2"],
     [pat |-> Lit(<<83,77,65,88,83,78,51>>), tok |-> "ET_SMAXSN3"],
     [pat |-> Lit(<<83,77,65,88,83,78,45,49>>), tok |-> "ET_SMAXSNM1"],
     [pat |-> Lit(<<83,77,65,88,83,78,49,45,49>>), tok |-> "ET_SMAXSN1M1"],
     [pat |-> Lit(<<83,77,65,88,83,78,50,45,49>>), tok |-> "ET_SMAXSN2M1"],
     [pat |-> Lit(<<83,77,65,88,83,78,51,45,49>>), tok |-> "ET_SMAXSN3M1"],
     [pat |-> Lit(<<83,73,78,83,84,73>>), tok |-> "ET_SINSTI"],
     [pat |-> Lit(<<83,77,65,88,73,78>>), tok |-> "ET_SMAXIN"],
     [pat |-> Lit(<<83,77,65,88,73,78,45,49>>), tok |-> "ET_SMAXINM1"],
     [pat |-> Lit(<<67,67,65,83,78>>), tok |-> "ET_CCASN"],
     [pat |-> Lit(<<67,67,65,83,78,45,49>>), tok |-> "ET_CCASNM1"],
     [pat |-> Lit(<<67,67,65,73,78>>), tok |-> "ET_CCAIN"],
     [pat |-> Lit(<<67,67,65,73,78,45,49>>), tok |-> "ET_CCAINM1"],
     [pat |-> Lit(<<85,77,79,89,49>>), tok |-> "ET_UMOY1"],
     [pat |-> Lit(<<85,77,79,89,50>>), tok |-> "ET_UMOY2"],
     [pat |-> Lit(<<85,77,79,89,51>>), tok |-> "ET_UMOY3"],
     [pat |-> Lit(<<83,84,71,69>>), tok |-> "ET_STGE"],
     [pat |-> Lit(<<68,80,77,49>>), tok |-> "ET_DPM1"],
     [pat |-> Lit(<<70,80,77,49>>), tok |-> "ET_FPM1"],
     [pat |-> Lit(<<68,80,77,50>>), tok |-> "ET_DPM2"],
     [pat |-> Lit(<<70,80,77,50>>), tok |-> "ET_FPM2"],
     [pat |-> Lit(<<68,80,77,51>>), tok |-> "ET_DPM3"],
     [pat |-> Lit(<<70,80,77,51>>), tok |-> "ET_FPM3"],
     [pat |-> Lit(<<77,83,71,49>>), tok |-> "ET_MSG1"],
     [pat |-> Lit(<<77,83,71,50>>), tok |-> "ET_MSG2"],
     [pat |-> Lit(<<80,82,77>>), tok |-> "ET_PRM"],
     [pat |-> Lit(<<82,69,76,65,73,83>>), tok |-> "ET_RELAIS"],
     [pat |-> Lit(<<78,84,65,82,70>>), tok |-> "ET_NTARF"],
     [pat |-> Lit(<<78,74,79,85,82,70>>), tok |-> "ET_NJOURF"],
     [pat |-> Lit(<<78,74,79,85,82,70,43,49>>), tok |-> "ET_NJOURFP1"],
     [pat |-> Lit(<<80,74,79,85,82,70,43,49>>), tok |-> "ET_PJOURFP1"],
     [pat |-> Lit(<<80,80,79,73,78,84,69>>), tok |-> "ET_PPOINTE"]
  >>

\* Etiquette rules of src/ticv02.y lines 123-196: grammar class and unittype of each label token.
EtiqV02 ==
  [
     ET_DATE |-> [cls |-> "ET_H", unit |-> "U_SANS", type |-> "T_STRING"],
     ET_SMAXSN |-> [cls |-> "ET_H", unit |-> "U_VA", type |-> "T_INT"],
     ET_SMAXSN1 |-> [cls |-> "ET_H", unit |-> "U_VA", type |-> "T_INT"],
     ET_SMAXSN2 |-> [cls |-> "ET_H", unit |-> "U_VA", type |-> "T_INT"],
     ET_SMAXSN3 |-> [cls |-> "ET_H", unit |-> "U_VA", type |-> "T_INT"],
     ET_SMAXSNM1 |-> [cls |-> "ET_H", unit |-> "U_VA", type |-> "T_INT"],
     ET_SMAXSN1M1 |-> [cls |-> "ET_H", unit |-> "U_VA", type |-> "T_INT"],
     ET_SMAXSN2M1 |-> [cls |-> "ET_H", unit |-> "U_VA", type |-> "T_INT"],
     ET_SMAXSN3M1 |-> [cls |-> "ET_H", unit |-> "U_VA", type |-> "T_INT"],
     ET_SMAXIN |-> [cls |-> "ET_H", unit |-> "U_VA", type |-> "T_INT"],
     ET_SMAXINM1 |-> [cls |-> "ET_H", unit |-> "U_VA", type |-> "T_INT"],
     ET_CCASN |-> [cls |-> "ET_H", unit |-> "U_W", type |-> "T_INT"],
     ET_CCASNM1 |-> [cls |-> "ET_H", unit |-> "U_W", type |-> "T_INT"],
     ET_CCAIN |-> [cls |-> "ET_H", unit |-> "U_W", type |-> "T_INT"],
     ET_CCAINM1 |-> [cls |-> "ET_H", unit |-> "U_W", type |-> "T_INT"],
     ET_UMOY1 |-> [cls |-> "ET_H", unit |-> "U_V", type |-> "T_INT"],
     ET_UMOY2 |-> [cls |-> "ET_H", unit |-> "U_V", type |-> "T_INT"],
     ET_UMOY3 |-> [cls |-> "ET_H", unit |-> "U_V", type |-> "T_INT"],
     ET_DPM1 |-> [cls |-> "ET_H", unit |-> "U_SANS", type |-> "T_STRING"],
     ET_FPM1 |-> [cls |-> "ET_H", unit |-> "U_SANS", type |-> "T_STRING"],
     ET_DPM2 |-> [cls |-> "ET_H", unit |-> "U_SANS", type |-> "T_STRING"],
     ET_FPM2 |-> [cls |-> "ET_H", unit |-> "U_SANS", type |-> "T_STRING"],
     ET_DPM3 |-> [cls |-> "ET_H", unit |-> "U_SANS", type |-> "T_STRING"],
     ET_FPM3 |-> [cls |-> "ET_H", unit |-> "U_SANS", type |-> "T_STRING"],
     ET_ADSC |-> [cls |-> "ET_N", unit |-> "U_SANS", type |-> "T_STRING"],
     ET_VTIC |-> [cls |-> "ET_N", unit |-> "U_SANS", type |-> "T_STRING"],
     ET_NGTF |-> [cls |-> "ET_N", unit |-> "U_SANS", type |-> "T_STRING"],
     ET_LTARF |-> [cls |-> "ET_N", unit |-> "U_SANS", type |-> "T_STRING"],
     ET_EAST |-> [cls |-> "ET_N", unit |-> "U_WH", type |-> "T_INT"],
     ET_EASF01 |-> [cls |-> "ET_N", unit |-> "U_WH", type |-> "T_INT"],
     ET_EASF02 |-> [cls |-> "ET_N", unit |-> "U_WH", type |-> "T_INT"],
     ET_EASF03 |-> [cls |-> "ET_N", unit |-> "U_WH", type |-> "T_INT"],
     ET_EASF04 |-> [cls |-> "ET_N", unit |-> "U_WH", type |-> "T_INT"],
     ET_EASF05 |-> [cls |-> "ET_N", unit |-> "U_WH", type |-> "T_INT"],
     ET_EASF06 |-> [cls |-> "ET_N", unit |-> "U_WH", type |-> "T_INT"],
     ET_EASF07 |-> [cls |-> "ET_N", unit |-> "U_WH", type |-> "T_INT"],
     ET_EASF08 |-> [cls |-> "ET_N", unit |-> "U_WH", type |-> "T_INT"],
     ET_EASF09 |-> [cls |-> "ET_N", unit |-> "U_WH", type |-> "T_INT"],
     ET_EASF10 |-> [cls |-> "ET_N", unit |-> "U_WH", type |-> "T_INT"],
     ET_EASD01 |-> [cls |-> "ET_N", unit |-> "U_WH", type |-> "T_INT"],
     ET_EASD02 |-> [cls |-> "ET_N", unit |-> "U_WH", type |-> "T_INT"],
     ET_EASD03 |-> [cls |-> "ET_N", unit |-> "U_WH", type |-> "T_INT"],
     ET_EASD04 |-> [cls |-> "ET_N", unit |-> "U_WH", type |-> "T_INT"],
     ET_EAIT |-> [cls |-> "ET_N", unit |-> "U_WH", type |-> "T_INT"],
     ET_ERQ1 |-> [cls |-> "ET_N", unit |-> "U_VARH", type |-> "T_INT"],
     ET_ERQ2 |-> [cls |-> "ET_N", unit |-> "U_VARH", type |-> "T_INT"],
     ET_ERQ3 |-> [cls |-> "ET_N", unit |-> "U_VARH", type |-> "T_INT"],
     ET_ERQ4 |-> [cls |-> "ET_N", unit |-> "U_VARH", type |-> "T_INT"],
     ET_IRMS1 |-> [cls |-> "ET_N", unit |-> "U_A", type |-> "T_INT"],
     ET_IRMS2 |-> [cls |-> "ET_N", unit |-> "U_A", type |-> "T_INT"],
     ET_IRMS3 |-> [cls |-> "ET_N", unit |-> "U_A", type |-> "T_INT"],
     ET_URMS1 |-> [cls |-> "ET_N", unit |-> "U_V", type |-> "T_INT"],
     ET_URMS2 |-> [cls |-> "ET_N", unit |-> "U_V", type |-> "T_INT"],
     ET_URMS3 |-> [cls |-> "ET_N", unit |-> "U_V", type |-> "T_INT"],
     ET_PREF |-> [cls |-> "ET_N", unit |-> "U_KVA", type |-> "T_INT"],
     ET_PCOUP |-> [cls |-> "ET_N", unit |-> "U_KVA", type |-> "T_INT"],
     ET_SINSTS |-> [cls |-> "ET_N", unit |-> "U_VA", type |-> "T_INT"],
     ET_SINSTS1 |-> [cls |-> "ET_N", unit |-> "U_VA", type |-> "T_INT"],
     ET_SINSTS2 |-> [cls |-> "ET_N", unit |-> "U_VA", type |-> "T_INT"],
     ET_SINSTS3 |-> [cls |-> "ET_N", unit |-> "U_VA", type |-> "T_INT"],
     ET_SINSTI |-> [cls |-> "ET_N", unit |-> "U_VA", type |-> "T_INT"],
     ET_STGE |-> [cls |-> "ET_N", unit |-> "U_SANS", type |-> "T_HEX"],
     ET_MSG1 |-> [cls |-> "ET_N", unit |-> "U_SANS", type |-> "T_STRING"],
     ET_MSG2 |-> [cls |-> "ET_N", unit |-> "U_SANS", type |-> "T_STRING"],
     ET_PRM |-> [cls |-> "ET_N", unit |-> "U_SANS", type |-> "T_STRING"],
     ET_RELAIS |-> [cls |-> "ET_N", unit |-> "U_SANS", type |-> "T_INT"],
     ET_NTARF |-> [cls |-> "ET_N", unit |-> "U_SANS", type |-> "T_INT"],
     ET_NJOURF |-> [cls |-> "ET_N", unit |-> "U_SANS", type |-> "T_INT"],
     ET_NJOURFP1 |-> [cls |-> "ET_N", unit |-> "U_SANS", type |-> "T_INT"],
     ET_PJOURFP1 |-> [cls |-> "ET_N", unit |-> "U_SANS", type |-> "T_STRING"],
     ET_PPOINTE |-> [cls |-> "ET_N", unit |-> "U_SANS", type |-> "T_STRING"]
  ]

\* Label rules of src/src/ticv01.l lines 110-145, in file order: pattern and returned token.
LabelsV01 ==
  <<
     [pat |-> Lit(<<65,68,67,79>>), tok |-> "ET_ADCO"],
     [pat |-> Lit(<<79,80,84,65,82,73,70>>), tok |-> "ET_OPTARIF"],
     [pat |-> Lit(<<73,83,79,85,83,67>>), tok |-> "ET_ISOUSC"],
     [pat |-> Lit(<<66,65,83,69>>), tok |-> "ET_BASE"],
     [pat |-> Lit(<<72,67,72,67>>), tok |-> "ET_HCHC"],
     [pat |-> Lit(<<72,67,72,80>>), tok |-> "ET_HCHP"],
     [pat |-> Lit(<<69,74,80,72,78>>), tok |-> "ET_EJPHN"],
     [pat |-> Lit(<<69,74,80,72,80,77>>), tok |-> "ET_EJPHPM"],
     [pat |-> Lit(<<66,66,82,72,67,74,66>>), tok |-> "ET_BBRHCJB"],
     [pat |-> Lit(<<66,66,82,72,80,74,66>>), tok |-> "ET_BBRHPJB"],
     [pat |-> Lit(<<66,66,82,72,67,74,87>>), tok |-> "ET_BBRHCJW"],
     [pat |-> Lit(<<66,66,82,72,80,74,87>>), tok |-> "ET_BBRHPJW"],
     [pat |-> Lit(<<66,66,82,72,67,74,82>>), tok |-> "ET_BBRHCJR"],
     [pat |-> Lit(<<66,66,82,72,80,74,82>>), tok |-> "ET_BBRHPJR"],
     [pat |-> Lit(<<80,69,74,80>>), tok |-> "ET_PEJP"],
     [pat |-> Lit(<<80,84,69,67>>), tok |-> "ET_PTEC"],
     [pat |-> Lit(<<68,69,77,65,73,78>>), tok |-> "ET_DEMAIN"],
     [pat |-> Lit(<<73,73,78,83,84>>), tok |-> "ET_IINST"],
     [pat |-> Lit(<<73,73,78,83,84,49>>), tok |-> "ET_IINST1"],
     [pat |-> Lit(<<73,73,78,83,84,50>>), tok |-> "ET_IINST2"],
     [pat |-> Lit(<<73,73,78,83,84,51>>), tok |-> "ET_IINST3"],
     [pat |-> Lit(<<65,68,80,83>>), tok |-> "ET_ADPS"],
     [pat |-> Lit(<<73,77,65,88>>), tok |-> "ET_IMAX"],
     [pat |-> Lit(<<73,77,65,88,49>>), tok |-> "ET_IMAX1"],
     [pat |-> Lit(<<73,77,65,88,50>>), tok |-> "ET_IMAX2"],
     [pat |-> Lit(<<73,77,65,88,51>>), tok |-> "ET_IMAX3"],
     [pat |-> Lit(<<80,77,65,88>>), tok |-> "ET_PMAX"],
     [pat |-> Lit(<<80,65,80,80>>), tok |-> "ET_PAPP"],
     [pat |-> Lit(<<72,72,80,72,67>>), tok |-> "ET_HHPHC"],
     [pat |-> Lit(<<77,79,84,68,69,84,65,84>>), tok |-> "ET_MOTDETAT"],
     [pat |-> Lit(<<80,80,79,84>>), tok |-> "ET_PPOT"],
     [pat |-> Lit(<<65,68,73,82,49>>), tok |-> "ET_ADIR1"],
     [pat |-> Lit(<<65,68,73,82,50>>), tok |-> "ET_ADIR2"],
     [pat |-> Lit(<<65,68,73,82,51>>), tok |-> "ET_ADIR3"],
     [pat |-> Lit(<<71,65,90>>), tok |-> "ET_GAZ"],
     [pat |-> Lit(<<65,85,84,82,69>>), tok |-> "ET_AUTRE"]
  >>

\* Etiquette rules of src/ticv01.y lines 106-139: grammar class and unittype of each label token.
EtiqV01 ==
  [
     ET_ADCO |-> [cls |-> "ET_N", unit |-> "U_SANS", type |-> "T_STRING"],
     ET_OPTARIF |-> [cls |-> "ET_N", unit |-> "U_SANS", type |-> "T_STRING"],
     ET_ISOUSC |-> [cls |-> "ET_N", unit |-> "U_A", type |-> "T_INT"],
     ET_BASE |-> [cls |-> "ET_N", unit |-> "U_WH", type |-> "T_INT"],
     ET_HCHC |-> [cls |-> "ET_N", unit |-> "U_WH", type |-> "T_INT"],
     ET_HCHP |-> [cls |-> "ET_N", unit |-> "U_WH", type |-> "T_INT"],
     ET_EJPHN |-> [cls |-> "ET_N", unit |-> "U_WH", type |-> "T_INT"],
     ET_EJPHPM |-> [cls |-> "ET_N", unit |-> "U_WH", type |-> "T_INT"],
     ET_BBRHCJB |-> [cls |-> "ET_N", unit |-> "U_WH", type |-> "T_INT"],
     ET_BBRHPJB |-> [cls |-> "ET_N", unit |-> "U_WH", type |-> "T_INT"],
     ET_BBRHCJW |-> [cls |-> "ET_N", unit |-> "U_WH", type |-> "T_INT"],
     ET_BBRHPJW |-> [cls |-> "ET_N", unit |-> "U_WH", type |-> "T_INT"],
     ET_BBRHCJR |-> [cls |-> "ET_N", unit |-> "U_WH", type |-> "T_INT"],
     ET_BBRHPJR |-> [cls |-> "ET_N", unit |-> "U_WH", type |-> "T_INT"],
     ET_PEJP |-> [cls |-> "ET_N", unit |-> "U_MIN", type |-> "T_INT"],
     ET_PTEC |-> [cls |-> "ET_N", unit |-> "U_SANS", type |-> "T_STRING"],
     ET_DEMAIN |-> [cls |-> "ET_N", unit |-> "U_SANS", type |-> "T_STRING"],
     ET_IINST |-> [cls |-> "ET_N", unit |-> "U_A", type |-> "T_INT"],
     ET_IINST1 |-> [cls |-> "ET_N", unit |-> "U_A", type |-> "T_INT"],
     ET_IINST2 |-> [cls |-> "ET_N", unit |-> "U_A", type |-> "T_INT"],
     ET_IINST3 |-> [cls |-> "ET_N", unit |-> "U_A", type |-> "T_INT"],
     ET_ADPS |-> [cls |-> "ET_N", unit |-> "U_A", type |-> "T_INT"],
     ET_IMAX |-> [cls |-> "ET_N", unit |-> "U_A", type |-> "T_INT"],
     ET_IMAX1 |-> [cls |-> "ET_N", unit |-> "U_A", type |-> "T_INT"],
     ET_IMAX2 |-> [cls |-> "ET_N", unit |-> "U_A", type |-> "T_INT"],
     ET_IMAX3 |-> [cls |-> "ET_N", unit |-> "U_A", type |-> "T_INT"],
     ET_PMAX |-> [cls |-> "ET_N", unit |-> "U_W", type |-> "T_INT"],
     ET_PAPP |-> [cls |-> "ET_N", unit |-> "U_VA", type |-> "T_INT"],
     ET_HHPHC |-> [cls |-> "ET_N", unit |-> "U_SANS", type |-> "T_STRING"],
     ET_MOTDETAT |-> [cls |-> "ET_N", unit |-> "U_SANS", type |-> "T_STRING"],
     ET_PPOT |-> [cls |-> "ET_N", unit |-> "U_SANS", type |-> "T_INT"],
     ET_ADIR1 |-> [cls |-> "ET_N", unit |-> "U_A", type |-> "T_INT"],
     ET_ADIR2 |-> [cls |-> "ET_N", unit |-> "U_A", type |-> "T_INT"],
     ET_ADIR3 |-> [cls |-> "ET_N", unit |-> "U_A", type |-> "T_INT"]
  ]

\* Label rules of src/src/ticv01pme.l lines 117-198, in file order: pattern and returned token.
LabelsV01PME ==
  <<
     [pat |-> Lit(<<84,82,65,77,69>>), tok |-> "ET_TRAME"],
     [pat |-> Lit(<<65,68,83>>), tok |-> "ET_ADS"],
     [pat |-> Lit(<<77,69,83,85,82,69,83,49>>), tok |-> "ET_MESURES"],
     [pat |-> Lit(<<68,65,84,69>>), tok |-> "ET_DATE"],
     [pat |-> Lit(<<69,65,95,115>>), tok |-> "ET_EA_s"],
     [pat |-> Lit(<<69,82,43,95,115>>), tok |-> "ET_ERP_s"],
     [pat |-> Lit(<<69,82,45,95,115>>), tok |-> "ET_ERM_s"],
     [pat |-> Lit(<<69,65,80,80,95,115>>), tok |-> "ET_EAPP_s"],
     [pat |-> Lit(<<69,65,95,105>>), tok |-> "ET_EA_i"],
     [pat |-> Lit(<<69,82,43,95,105>>), tok |-> "ET_ERP_i"],
     [pat |-> Lit(<<69,82,45,95,105>>), tok |-> "ET_ERM_i"],
     [pat |-> Lit(<<69,65,80,80,95,105>>), tok |-> "ET_EAPP_i"],
     [pat |-> Lit(<<80,84,67,79,85,82,49>>), tok |-> "ET_PTCOUR"],
     [pat |-> Lit(<<84,65,82,73,70,68,89,78>>), tok |-> "ET_TARIFDYN"],
     [pat |-> Lit(<<69,84,65,84,68,89,78,49>>), tok |-> "ET_IGNORED"],
     [pat |-> Lit(<<80,82,69,65,86,73,83,49>>), tok |-> "ET_IGNORED"],
     [pat |-> Lit(<<84,68,89,78,49,67,68>>), tok |-> "ET_IGNORED"],
     [pat |-> Lit(<<84,68,89,78,49,67,70>>), tok |-> "ET_IGNORED"],
     [pat |-> Lit(<<84,68,89,78,49,70,68>>), tok |-> "ET_IGNORED"],
     [pat |-> Lit(<<84,68,89,78,49,70,70>>), tok |-> "ET_IGNORED"],
     [pat |-> Lit(<<77,79,68,69>>), tok |-> "ET_MODE"],
     [pat |-> Lit(<<67,79,78,70,73,71>>), tok |-> "ET_CONFIG"],
     [pat |-> Lit(<<68,65,84,69,80,65>>) \o <<49..54>>, tok |-> "ET_DATEPAX"],
     [pat |-> Lit(<<80,65>>) \o <<49..54>> \o Lit(<<95>>) \o <<{105,115}>>, tok |-> "ET_PAX_x"],
     [pat |-> Lit(<<68,101,98,80>>), tok |-> "ET_DEBP"],
     [pat |-> Lit(<<69,65,80,95,115>>), tok |-> "ET_EAP_s"],
     [pat |-> Lit(<<69,65,80,95,105>>), tok |-> "ET_EAP_i"],
     [pat |-> Lit(<<69,82,43,80,95,115>>), tok |-> "ET_ERPP_s"],
     [pat |-> Lit(<<69,82,45,80,95,115>>), tok |-> "ET_ERMP_s"],
     [pat |-> Lit(<<69,82,43,80,95,105>>), tok |-> "ET_ERPP_i"],
     [pat |-> Lit(<<69,82,45,80,95,105>>), tok |-> "ET_ERMP_i"],
     [pat |-> Lit(<<68,101,98,80,45,49>>), tok |-> "ET_DEBPM1"],
     [pat |-> Lit(<<70,105,110,80,45,49>>), tok |-> "ET_FINPM1"],
     [pat |-> Lit(<<69,97,80,45,49,95,115>>), tok |-> "ET_EAPM1_s"],
     [pat |-> Lit(<<69,97,80,45,49,95,105>>), tok |-> "ET_EAPM1_i"],
     [pat |-> Lit(<<69,82,43,80,45,49,95,115>>), tok |-> "ET_ERPPM1_s"],
     [pat |-> Lit(<<69,82,45,80,45,49,95,115>>), tok |-> "ET_ERMPM1_s"],
     [pat |-> Lit(<<69,82,43,80,45,49,95,105>>), tok |-> "ET_ERPPM1_i"],
     [pat |-> Lit(<<69,82,45,80,45,49,95,105>>), tok |-> "ET_ERMPM1_i"],
     [pat |-> Lit(<<80,83>>), tok |-> "ET_PS"],
     [pat |-> Lit(<<80,82,69,65,86,73,83>>), tok |-> "ET_PREAVIS"],
     [pat |-> Lit(<<80,65,49,77,78>>), tok |-> "ET_PA1MN"],
     [pat |-> Lit(<<80,77,65,88,95,115>>), tok |-> "ET_PMAX_s"],
     [pat |-> Lit(<<80,77,65,88,95,105>>), tok |-> "ET_PMAX_i"],
     [pat |-> Lit(<<84,71,80,72,73,95,115>>), tok |-> "ET_IGNORED"],
     [pat |-> Lit(<<84,71,80,72,73,95,105>>), tok |-> "ET_IGNORED"],
     [pat |-> Lit(<<77,69,83,85,82,69,83,50>>), tok |-> "ET_MESURES"],
     [pat |-> Lit(<<80,84,67,79,85,82,50>>), tok |-> "ET_PTCOUR"],
     [pat |-> Lit(<<69,84,65,84,68,89,78,50>>), tok |-> "ET_IGNORED"],
     [pat |-> Lit(<<80,82,69,65,86,73,83,50>>), tok |-> "ET_IGNORED"],
     [pat |-> Lit(<<84,68,89,78,50,67,68>>), tok |-> "ET_IGNORED"],
     [pat |-> Lit(<<84,68,89,78,50,67,70>>), tok |-> "ET_IGNORED"],
     [pat |-> Lit(<<84,68,89,78,50,70,68>>), tok |-> "ET_IGNORED"],
     [pat |-> Lit(<<84,68,89,78,50,70,70>>), tok |-> "ET_IGNORED"],
     [pat |-> Lit(<<68,101,98,80,95,50>>), tok |-> "ET_DEBP"],
     [pat |-> Lit(<<69,97,80,95,115,50>>), tok |-> "ET_EAP_s"],
     [pat |-> Lit(<<68,101,98,80,45,49,95,50>>), tok |-> "ET_DEBPM1"],
     [pat |-> Lit(<<70,105,110,80,45,49,95,50>>), tok |-> "ET_FINPM1"],
     [pat |-> Lit(<<69,97,80,45,49,95,115,50>>), tok |-> "ET_EAPM1_s"]
  >>

\* Etiquette rules of src/src/ticv01pme.y lines 141-189: grammar class and unittype of each label token.
EtiqV01PME ==
  [
     ET_DATE |-> [cls |-> "ET_H", unit |-> "U_SANS", type |-> "T_STRING"],
     ET_DATEPAX |-> [cls |-> "ET_H", unit |-> "U_SANS", type |-> "T_STRING"],
     ET_DEBP |-> [cls |-> "ET_H", unit |-> "U_SANS", type |-> "T_STRING"],
     ET_DEBPM1 |-> [cls |-> "ET_H", unit |-> "U_SANS", type |-> "T_STRING"],
     ET_FINPM1 |-> [cls |-> "ET_H", unit |-> "U_SANS", type |-> "T_STRING"],
     ET_TRAME |-> [cls |-> "ET_N", unit |-> "U_SANS", type |-> "T_STRING"],
     ET_ADS |-> [cls |-> "ET_N", unit |-> "U_SANS", type |-> "T_STRING"],
     ET_MESURES |-> [cls |-> "ET_N", unit |-> "U_SANS", type |-> "T_STRING"],
     ET_EA_s |-> [cls |-> "ET_N", unit |-> "U_WH", type |-> "T_INT"],
     ET_ERP_s |-> [cls |-> "ET_N", unit |-> "U_VARH", type |-> "T_INT"],
     ET_ERM_s |-> [cls |-> "ET_N", unit |-> "U_VARH", type |-> "T_INT"],
     ET_EAPP_s |-> [cls |-> "ET_N", unit |-> "U_VAH", type |-> "T_INT"],
     ET_EA_i |-> [cls |-> "ET_N", unit |-> "U_WH", type |-> "T_INT"],
     ET_ERP_i |-> [cls |-> "ET_N", unit |-> "U_VARH", type |-> "T_INT"],
     ET_ERM_i |-> [cls |-> "ET_N", unit |-> "U_VARH", type |-> "T_INT"],
     ET_EAPP_i |-> [cls |-> "ET_N", unit |-> "U_VAH", type |-> "T_INT"],
     ET_PTCOUR |-> [cls |-> "ET_N", unit |-> "U_SANS", type |-> "T_STRING"],
     ET_TARIFDYN |-> [cls |-> "ET_N", unit |-> "U_SANS", type |-> "T_STRING"],
     ET_MODE |-> [cls |-> "ET_N", unit |-> "U_SANS", type |-> "T_STRING"],
     ET_CONFIG |-> [cls |-> "ET_N", unit |-> "U_SANS", type |-> "T_STRING"],
     ET_PAX_s |-> [cls |-> "ET_N", unit |-> "U_KW", type |-> "T_INT"],
     ET_PAX_i |-> [cls |-> "ET_N", unit |-> "U_KW", type |-> "T_INT"],
     ET_EAP_s |-> [cls |-> "ET_N", unit |-> "U_KWH", type |-> "T_INT"],
     ET_EAP_i |-> [cls |-> "ET_N", unit |-> "U_KWH", type |-> "T_INT"],
     ET_ERPP_s |-> [cls |-> "ET_N", unit |-> "U_KVARH", type |-> "T_INT"],
     ET_ERMP_s |-> [cls |-> "ET_N", unit |-> "U_KVARH", type |-> "T_INT"],
     ET_ERPP_i |-> [cls |-> "ET_N", unit |-> "U_KVARH", type |-> "T_INT"],
     ET_ERMP_i |-> [cls |-> "ET_N", unit |-> "U_KVARH", type |-> "T_INT"],
     ET_EAPM1_s |-> [cls |-> "ET_N", unit |-> "U_KWH", type |-> "T_INT"],
     ET_EAPM1_i |-> [cls |-> "ET_N", unit |-> "U_KWH", type |-> "T_INT"],
     ET_ERPPM1_s |-> [cls |-> "ET_N", unit |-> "U_KVARH", type |-> "T_INT"],
     ET_ERMPM1_s |-> [cls |-> "ET_N", unit |-> "U_KVARH", type |-> "T_INT"],
     ET_ERPPM1_i |-> [cls |-> "ET_N", unit |-> "U_KVARH", type |-> "T_INT"],
     ET_ERMPM1_i |-> [cls |-> "ET_N", unit |-> "U_KVARH", type |-> "T_INT"],
     ET_PS |-> [cls |-> "ET_N", unit |-> "U_SANS", type |-> "T_INT"],
     ET_PREAVIS |-> [cls |-> "ET_N", unit |-> "U_SANS", type |-> "T_STRING"],
     ET_PA1MN |-> [cls |-> "ET_N", unit |-> "U_KW", type |-> "T_INT"],
     ET_PMAX_s |-> [cls |-> "ET_N", unit |-> "U_SANS", type |-> "T_INT"],
     ET_PMAX_i |-> [cls |-> "ET_N", unit |-> "U_SANS", type |-> "T_INT"],
     ET_IGNORED |-> [cls |-> "ET_I", unit |-> "U_SANS", type |-> "T_IGN"]
  ]

\* ------------------------------------------------------------------------
\* Scanners (flex): rules in file order, longest match, first rule on ties
\* ------------------------------------------------------------------------

\* <*> rules, rules without start condition (%s FILTER is inclusive), <DATA> rules
AllSC == {"INITIAL", "DATA", "FILTER"}

NoSC == {"INITIAL", "FILTER"}

DataSC == {"DATA"}

LabelRules(L) ==
  [i \in 1..Len(L) |->
     [sc |-> NoSC, kind |-> "fix", pat |-> L[i].pat, act |-> "LABEL", tok |-> L[i].tok]]

\* the rule `<*>.` : any byte but the newline
AnyRule ==
  [sc |-> AllSC, kind |-> "fix", pat |-> <<Byte \ {LF}>>, act |-> "ANY", tok |-> "char"]

\* the two rules of the filter configuration: the header line, white space
FilterRules ==
  << [sc |-> {"FILTER"}, kind |-> "fix",
      pat |-> Lit(<<35, 116, 105, 99, 102, 105, 108, 116, 101, 114, LF>>),
      act |-> "FILT", tok |-> "TICFILTER"],
     [sc |-> {"FILTER"}, kind |-> "plus", pat |-> <<{SP, HT, LF}>>,
      act |-> "SKIP", tok |-> "none"] >>

LexRulesV02 ==
  FilterRules \o
  << [sc |-> AllSC, kind |-> "fix", pat |-> <<{STX}>>, act |-> "CTRL", tok |-> "TOK_STX"],
     [sc |-> AllSC, kind |-> "fix", pat |-> <<{ETX}>>, act |-> "CTRL", tok |-> "TOK_ETX"],
     [sc |-> AllSC, kind |-> "fix", pat |-> <<{LF}>>, act |-> "LF", tok |-> "FIELD_START"],
     [sc |-> AllSC, kind |-> "fix", pat |-> <<{HT}>>, act |-> "SEP", tok |-> "TOK_SEP"],
     [sc |-> AllSC, kind |-> "fix", pat |-> <<CHKSUM, {CR}>>, act |-> "CK", tok |-> "FIELD_OK"] >>
  \o LabelRules(LabelsV02)
  \o << [sc |-> DataSC, kind |-> "fix", pat |-> HorodateV02, act |-> "TEXT", tok |-> "TOK_HDATE"],
        [sc |-> DataSC, kind |-> "plus", pat |-> <<DATAC("V02")>>, act |-> "TEXT", tok |-> "TOK_DATA"],
        AnyRule >>

LexRulesV01 ==
  FilterRules \o
  << [sc |-> AllSC, kind |-> "fix", pat |-> <<{STX}>>, act |-> "CTRL", tok |-> "TOK_STX"],
     [sc |-> AllSC, kind |-> "fix", pat |-> <<{ETX}>>, act |-> "CTRL", tok |-> "TOK_ETX"],
     [sc |-> AllSC, kind |-> "fix", pat |-> <<{EOT}>>, act |-> "CTRL", tok |-> "TOK_EOT"],
     [sc |-> AllSC, kind |-> "fix", pat |-> <<{LF}>>, act |-> "LF", tok |-> "FIELD_START"],
     [sc |-> AllSC, kind |-> "fix", pat |-> <<{SP}>>, act |-> "SEP", tok |-> "TOK_SEP"],
     [sc |-> AllSC, kind |-> "fix", pat |-> <<CHKSUM, {CR}>>, act |-> "CK", tok |-> "FIELD_OK"] >>
  \o LabelRules(LabelsV01)
  \o << [sc |-> DataSC, kind |-> "plus", pat |-> <<DATAC("V01")>>, act |-> "TEXT", tok |-> "TOK_DATA"],
        AnyRule >>

LexRulesV01PME ==
  FilterRules \o
  << [sc |-> AllSC, kind |-> "fix", pat |-> <<{STX}>>, act |-> "CTRL", tok |-> "TOK_STX"],
     [sc |-> AllSC, kind |-> "fix", pat |-> <<{ETX}>>, act |-> "CTRL", tok |-> "TOK_ETX"],
     [sc |-> AllSC, kind |-> "fix", pat |-> <<{EOT}>>, act |-> "CTRL", tok |-> "TOK_EOT"],
     [sc |-> AllSC, kind |-> "fix", pat |-> <<{LF}>>, act |-> "LF", tok |-> "FIELD_START"],
     [sc |-> AllSC, kind |-> "fix", pat |-> CTRLTRAIL, act |-> "CK", tok |-> "FIELD_OK"],
     [sc |-> NoSC, kind |-> "fix", pat |-> <<{SP}>>, act |-> "SEP", tok |-> "TOK_SEP"] >>
  \o LabelRules(LabelsV01PME)
  \o << [sc |-> DataSC, kind |-> "hdtrail", pat |-> HorodatePME, act |-> "TEXT", tok |-> "TOK_HDATE"],
        [sc |-> DataSC, kind |-> "datatrail", pat |-> <<DATAC("V01PME")>>, act |-> "TEXT", tok |-> "TOK_DATA"],
        AnyRule >>

LexRules(d) ==
  CASE d = "V02" -> LexRulesV02
    [] d = "V01" -> LexRulesV01
    [] d = "V01PME" -> LexRulesV01PME

\* length of the match of a fixed-length pattern at the start of buf (0: none)
FixLen(pat, buf) ==
  IF Len(buf) >= Len(pat) /\ \A i \in 1..Len(pat) : buf[i] \in pat[i]
  THEN Len(pat) ELSE 0

\* buf is a proper prefix of a word of the fixed-length pattern
FixExt(pat, buf) ==
  Len(buf) < Len(pat) /\ \A i \in 1..Len(buf) : buf[i] \in pat[i]

\* length of the longest prefix of buf made of bytes of cls, starting after `from`
RunLen(cls, buf, from) ==
  LET bad == {i \in (from + 1)..Len(buf) : buf[i] \notin cls}
  IN  IF bad = {} THEN Len(buf) - from ELSE (CHOOSE x \in bad : \A y \in bad : x <= y) - 1 - from

\* {DATAC}+/{CTRLTRAIL}: the run of DATAC bytes stops at a CR that closes a trailer
DataTrailHead(r, buf) ==
  LET k == RunLen(r.pat[1], buf, 0)
  IN  IF k >= 3 /\ k < Len(buf) /\ buf[k + 1] = CR
         /\ buf[k - 1] \in CTRLTRAIL[1] /\ buf[k] \in CTRLTRAIL[2]
      THEN k - 2 ELSE 0

\* length of the text the rule matches at the start of buf, trailing context included
MatchLen(r, buf) ==
  CASE r.kind = "fix" -> FixLen(r.pat, buf)
    [] r.kind = "plus" -> RunLen(r.pat[1], buf, 0)
    [] r.kind = "hdtrail" ->
         IF FixLen(r.pat, buf) = 0 THEN 0
         ELSE Len(r.pat) + RunLen(Byte \ {LF}, buf, Len(r.pat))
    [] r.kind = "datatrail" ->
         IF DataTrailHead(r, buf) = 0 THEN 0 ELSE DataTrailHead(r, buf) + Len(CTRLTRAIL)

\* length of yytext: the match without its trailing context
TextLen(r, buf) ==
  CASE r.kind = "hdtrail" -> FixLen(r.pat, buf)
    [] r.kind = "datatrail" -> DataTrailHead(r, buf)
    [] OTHER -> MatchLen(r, buf)

\* more input could still lengthen a match of the rule
Extendable(r, buf) ==
  CASE r.kind = "fix" -> FixExt(r.pat, buf)
    [] r.kind = "plus" -> RunLen(r.pat[1], buf, 0) = Len(buf)
    [] r.kind = "hdtrail" ->
         \/ FixExt(r.pat, buf)
         \/ FixLen(r.pat, buf) > 0 /\ RunLen(Byte \ {LF}, buf, Len(r.pat)) = Len(buf) - Len(r.pat)
    [] r.kind = "datatrail" ->
         LET k == RunLen(r.pat[1], buf, 0)
         IN  k = Len(buf)

ActiveRules(d, sc) == {i \in 1..Len(LexRules(d)) : sc \in LexRules(d)[i].sc}

\* the scanner has to read on before it can decide on the next token
NeedInput(d, sc, buf) ==
  \/ buf = <<>>
  \/ \E i \in ActiveRules(d, sc) : Extendable(LexRules(d)[i], buf)

\* the rule flex selects among the rules A: longest match, first in the file among equals
BestIn(d, A, buf) ==
  CHOOSE i \in A :
    /\ MatchLen(LexRules(d)[i], buf) > 0
    /\ \A j \in A :
         \/ MatchLen(LexRules(d)[j], buf) < MatchLen(LexRules(d)[i], buf)
         \/ MatchLen(LexRules(d)[j], buf) = MatchLen(LexRules(d)[i], buf) /\ j >= i

BestRule(d, sc, buf) == BestIn(d, ActiveRules(d, sc), buf)

\* crc_calc(): add the bytes of yytext to the 8-bit checksum
crc_calc(checksum, yytext) == (checksum + SumBytes(yytext)) % 256

\* a trailer rule that folds the sum as it stands, last separator included
CkAdjustPlain(d, checksum) == checksum

\* the 8-bit value the trailer rule folds: V01 first takes the last separator out
CkAdjust(d, checksum) ==
  IF d = "V01" THEN (checksum + 256 - 32) % 256 ELSE checksum

\* checksum = (checksum & 0x3f) + 0x20
CkFold(checksum) == (checksum % 64) + 32

\* token of the PA[1-6]_[is] rule
PaxTok(yytext) == IF yytext[5] = 105 THEN "ET_PAX_i" ELSE "ET_PAX_s"

\* the action of rule r on yytext: token, semantic value, start condition, checksum
RunRule(d, sc, checksum, r, yytext) ==
  CASE r.act = "CTRL" ->
         [tok |-> r.tok, text |-> yytext, lval |-> <<>>, sc |-> "INITIAL", checksum |-> checksum]
    [] r.act = "LF" ->
         [tok |-> r.tok, text |-> yytext, lval |-> <<>>, sc |-> "INITIAL", checksum |-> 0]
    [] r.act = "SEP" ->
         [tok |-> r.tok, text |-> yytext, lval |-> <<>>, sc |-> "DATA",
          checksum |-> (checksum + yytext[1]) % 256]
    [] r.act = "CK" ->
         [tok |-> IF CkFold(CkAdjust(d, checksum)) = (IF d = "V01PME" THEN yytext[2] ELSE yytext[1])
                  THEN "FIELD_OK" ELSE "FIELD_KO",
          text |-> yytext, lval |-> <<>>, sc |-> sc,
          checksum |-> CkFold(CkAdjust(d, checksum))]
    [] r.act = "LABEL" ->
         [tok |-> IF r.tok = "ET_PAX_x" THEN PaxTok(yytext) ELSE r.tok,
          text |-> yytext, lval |-> IF r.tok = "ET_IGNORED" THEN <<>> ELSE yytext,
          sc |-> sc, checksum |-> crc_calc(checksum, yytext)]
    [] r.act = "TEXT" ->
         [tok |-> r.tok, text |-> yytext, lval |-> yytext, sc |-> sc,
          checksum |-> crc_calc(checksum, yytext)]
    [] r.act = "FILT" ->
         [tok |-> r.tok, text |-> yytext, lval |-> <<>>, sc |-> sc, checksum |-> checksum]
    [] r.act = "ANY" ->
         [tok |-> IF yytext[1] = NUL THEN "$end" ELSE "$undefined",
          text |-> yytext, lval |-> <<>>, sc |-> sc, checksum |-> checksum]

\* the selected rule applied to its text: the match without the trailing context
Apply(d, sc, checksum, r, buf) ==
  RunRule(d, sc, checksum, r, SubSeq(buf, 1, TextLen(r, buf)))

\* One call of yylex() on buf (non-empty)
yylex(d, sc, checksum, buf) ==
  Apply(d, sc, checksum, LexRules(d)[BestRule(d, sc, buf)], buf)

\* Productions of the V02 grammar: left-hand side and length of each rule.
RulesV02 ==
  <<
     [lhs |-> "$accept", len |-> 2, act |-> "accept"],  \* 0  $accept: start $end
     [lhs |-> "start", len |-> 1, act |-> "none"],  \* 1  start: filter
     [lhs |-> "start", len |-> 1, act |-> "none"],  \* 2  start: frames
     [lhs |-> "filter", len |-> 2, act |-> "none"],  \* 3  filter: TICFILTER etiquettes
     [lhs |-> "etiquettes", len |-> 1, act |-> "etiq_en1"],  \* 4  etiquettes: etiquette
     [lhs |-> "etiquettes", len |-> 2, act |-> "etiq_en2"],  \* 5  etiquettes: etiquettes etiquette
     [lhs |-> "etiquettes", len |-> 1, act |-> "yyabort"],  \* 6  etiquettes: error
     [lhs |-> "etiquette", len |-> 1, act |-> "none"],  \* 7  etiquette: etiquette_horodate
     [lhs |-> "etiquette", len |-> 1, act |-> "none"],  \* 8  etiquette: etiquette_nodate
     [lhs |-> "frames", len |-> 1, act |-> "none"],  \* 9  frames: frame
     [lhs |-> "frames", len |-> 2, act |-> "none"],  \* 10  frames: frames frame
     [lhs |-> "frame", len |-> 3, act |-> "frame_etx"],  \* 11  frame: TOK_STX datasets TOK_ETX
     [lhs |-> "frame", len |-> 2, act |-> "frame_error"],  \* 12  frame: error TOK_ETX
     [lhs |-> "datasets", len |-> 1, act |-> "datasets_error"],  \* 13  datasets: error
     [lhs |-> "datasets", len |-> 1, act |-> "none"],  \* 14  datasets: dataset
     [lhs |-> "datasets", len |-> 2, act |-> "none"],  \* 15  datasets: datasets dataset
     [lhs |-> "dataset", len |-> 3, act |-> "dataset_ok"],  \* 16  dataset: FIELD_START field FIELD_OK
     [lhs |-> "dataset", len |-> 3, act |-> "dataset_ko"],  \* 17  dataset: FIELD_START field FIELD_KO
     [lhs |-> "dataset", len |-> 3, act |-> "dataset_error"],  \* 18  dataset: FIELD_START error FIELD_OK
     [lhs |-> "field", len |-> 1, act |-> "none"],  \* 19  field: field_horodate
     [lhs |-> "field", len |-> 1, act |-> "none"],  \* 20  field: field_nodate
     [lhs |-> "field_horodate", len |-> 5, act |-> "field_h"],  \* 21  field_horodate: etiquette_horodate TOK_SEP TOK_HDATE TOK_SEP TOK_SEP
     [lhs |-> "field_horodate", len |-> 6, act |-> "field_hd"],  \* 22  field_horodate: etiquette_horodate TOK_SEP TOK_HDATE TOK_SEP TOK_DATA TOK_SEP
     [lhs |-> "field_nodate", len |-> 4, act |-> "field_d"],  \* 23  field_nodate: etiquette_nodate TOK_SEP TOK_DATA TOK_SEP
     [lhs |-> "etiquette_horodate", len |-> 1, act |-> "etiquette"],  \* 24  etiquette_horodate: ET_H
     [lhs |-> "etiquette_nodate", len |-> 1, act |-> "etiquette"]   \* 25  etiquette_nodate: ET_N
  >>

\* LALR(1) automaton of the V02 grammar (state k is element k+1): shifts on tokens,
\* reductions that need the lookahead, gotos on nonterminals, and the default
\* reduction (-1: none; none in a state that can shift the error token).
StatesV02 ==
  <<
     [shift |-> {<<"TICFILTER", 4>>, <<"TOK_STX", 6>>, <<"error", 7>>}, red |-> {}, goto |-> {<<"start", 1>>, <<"filter", 2>>, <<"frames", 3>>, <<"frame", 5>>}, defact |-> -1],  \* 0  $accept: . start $end
     [shift |-> {<<"$end", 8>>}, red |-> {}, goto |-> {}, defact |-> -1],  \* 1  $accept: start . $end
     [shift |-> {}, red |-> {}, goto |-> {}, defact |-> 1],  \* 2  start: filter .
     [shift |-> {<<"TOK_STX", 6>>, <<"error", 7>>}, red |-> {<<"$end", 2>>}, goto |-> {<<"frame", 9>>}, defact |-> -1],  \* 3  start: frames .; frames: frames . frame
     [shift |-> {<<"error", 12>>, <<"ET_H", 15>>, <<"ET_N", 16>>}, red |-> {}, goto |-> {<<"etiquettes", 10>>, <<"etiquette", 11>>, <<"etiquette_horodate", 13>>, <<"etiquette_nodate", 14>>}, defact |-> -1],  \* 4  filter: TICFILTER . etiquettes
     [shift |-> {}, red |-> {}, goto |-> {}, defact |-> 9],  \* 5  frames: frame .
     [shift |-> {<<"error", 18>>, <<"FIELD_START", 20>>}, red |-> {}, goto |-> {<<"datasets", 17>>, <<"dataset", 19>>}, defact |-> -1],  \* 6  frame: TOK_STX . datasets TOK_ETX
     [shift |-> {<<"TOK_ETX", 21>>}, red |-> {}, goto |-> {}, defact |-> -1],  \* 7  frame: error . TOK_ETX
     [shift |-> {}, red |-> {}, goto |-> {}, defact |-> 0],  \* 8  $accept: start $end .
     [shift |-> {}, red |-> {}, goto |-> {}, defact |-> 10],  \* 9  frames: frames frame .
     [shift |-> {<<"ET_H", 15>>, <<"ET_N", 16>>}, red |-> {}, goto |-> {<<"etiquette", 22>>, <<"etiquette_horodate", 13>>, <<"etiquette_nodate", 14>>}, defact |-> 3],  \* 10  filter: TICFILTER etiquettes .; etiquettes: etiquettes . etiquette
     [shift |-> {}, red |-> {}, goto |-> {}, defact |-> 4],  \* 11  etiquettes: etiquette .
     [shift |-> {}, red |-> {}, goto |-> {}, defact |-> 6],  \* 12  etiquettes: error .
     [shift |-> {}, red |-> {}, goto |-> {}, defact |-> 7],  \* 13  etiquette: etiquette_horodate .
     [shift |-> {}, red |-> {}, goto |-> {}, defact |-> 8],  \* 14  etiquette: etiquette_nodate .
     [shift |-> {}, red |-> {}, goto |-> {}, defact |-> 24],  \* 15  etiquette_horodate: ET_H .
     [shift |-> {}, red |-> {}, goto |-> {}, defact |-> 25],  \* 16  etiquette_nodate: ET_N .
     [shift |-> {<<"TOK_ETX", 23>>, <<"FIELD_START", 20>>}, red |-> {}, goto |-> {<<"dataset", 24>>}, defact |-> -1],  \* 17  frame: TOK_STX datasets . TOK_ETX; datasets: datasets . dataset
     [shift |-> {}, red |-> {}, goto |-> {}, defact |-> 13],  \* 18  datasets: error .
     [shift |-> {}, red |-> {}, goto |-> {}, defact |-> 14],  \* 19  datasets: dataset .
     [shift |-> {<<"error", 26>>, <<"ET_H", 15>>, <<"ET_N", 16>>}, red |-> {}, goto |-> {<<"field", 25>>, <<"field_horodate", 27>>, <<"field_nodate", 28>>, <<"etiquette_horodate", 29>>, <<"etiquette_nodate", 30>>}, defact |-> -1],  \* 20  dataset: FIELD_START . field FIELD_OK; dataset: FIELD_START . field FIELD_KO; dataset: FIELD_START . error FIELD_OK
     [shift |-> {}, red |-> {}, goto |-> {}, defact |-> 12],  \* 21  frame: error TOK_ETX .
     [shift |-> {}, red |-> {}, goto |-> {}, defact |-> 5],  \* 22  etiquettes: etiquettes etiquette .
     [shift |-> {}, red |-> {}, goto |-> {}, defact |-> 11],  \* 23  frame: TOK_STX datasets TOK_ETX .
     [shift |-> {}, red |-> {}, goto |-> {}, defact |-> 15],  \* 24  datasets: datasets dataset .
     [shift |-> {<<"FIELD_OK", 31>>, <<"FIELD_KO", 32>>}, red |-> {}, goto |-> {}, defact |-> -1],  \* 25  dataset: FIELD_START field . FIELD_OK; dataset: FIELD_START field . FIELD_KO
     [shift |-> {<<"FIELD_OK", 33>>}, red |-> {}, goto |-> {}, defact |-> -1],  \* 26  dataset: FIELD_START error . FIELD_OK
     [shift |-> {}, red |-> {}, goto |-> {}, defact |-> 19],  \* 27  field: field_horodate .
     [shift |-> {}, red |-> {}, goto |-> {}, defact |-> 20],  \* 28  field: field_nodate .
     [shift |-> {<<"TOK_SEP", 34>>}, red |-> {}, goto |-> {}, defact |-> -1],  \* 29  field_horodate: etiquette_horodate . TOK_SEP TOK_HDATE TOK_SEP TOK_SEP; field_horodate: etiquette_horodate . TOK_SEP TOK_HDATE TOK_SEP TOK_DATA TOK_SEP
     [shift |-> {<<"TOK_SEP", 35>>}, red |-> {}, goto |-> {}, defact |-> -1],  \* 30  field_nodate: etiquette_nodate . TOK_SEP TOK_DATA TOK_SEP
     [shift |-> {}, red |-> {}, goto |-> {}, defact |-> 16],  \* 31  dataset: FIELD_START field FIELD_OK .
     [shift |-> {}, red |-> {}, goto |-> {}, defact |-> 17],  \* 32  dataset: FIELD_START field FIELD_KO .
     [shift |-> {}, red |-> {}, goto |-> {}, defact |-> 18],  \* 33  dataset: FIELD_START error FIELD_OK .
     [shift |-> {<<"TOK_HDATE", 36>>}, red |-> {}, goto |-> {}, defact |-> -1],  \* 34  field_horodate: etiquette_horodate TOK_SEP . TOK_HDATE TOK_SEP TOK_SEP; field_horodate: etiquette_horodate TOK_SEP . TOK_HDATE TOK_SEP TOK_DATA TOK_SEP
     [shift |-> {<<"TOK_DATA", 37>>}, red |-> {}, goto |-> {}, defact |-> -1],  \* 35  field_nodate: etiquette_nodate TOK_SEP . TOK_DATA TOK_SEP
     [shift |-> {<<"TOK_SEP", 38>>}, red |-> {}, goto |-> {}, defact |-> -1],  \* 36  field_horodate: etiquette_horodate TOK_SEP TOK_HDATE . TOK_SEP TOK_SEP; field_horodate: etiquette_horodate TOK_SEP TOK_HDATE . TOK_SEP TOK_DATA TOK_SEP
     [shift |-> {<<"TOK_SEP", 39>>}, red |-> {}, goto |-> {}, defact |-> -1],  \* 37  field_nodate: etiquette_nodate TOK_SEP TOK_DATA . TOK_SEP
     [shift |-> {<<"TOK_SEP", 40>>, <<"TOK_DATA", 41>>}, red |-> {}, goto |-> {}, defact |-> -1],  \* 38  field_horodate: etiquette_horodate TOK_SEP TOK_HDATE TOK_SEP . TOK_SEP; field_horodate: etiquette_horodate TOK_SEP TOK_HDATE TOK_SEP . TOK_DATA TOK_SEP
     [shift |-> {}, red |-> {}, goto |-> {}, defact |-> 23],  \* 39  field_nodate: etiquette_nodate TOK_SEP TOK_DATA TOK_SEP .
     [shift |-> {}, red |-> {}, goto |-> {}, defact |-> 21],  \* 40  field_horodate: etiquette_horodate TOK_SEP TOK_HDATE TOK_SEP TOK_SEP .
     [shift |-> {<<"TOK_SEP", 42>>}, red |-> {}, goto |-> {}, defact |-> -1],  \* 41  field_horodate: etiquette_horodate TOK_SEP TOK_HDATE TOK_SEP TOK_DATA . TOK_SEP
     [shift |-> {}, red |-> {}, goto |-> {}, defact |-> 22]   \* 42  field_horodate: etiquette_horodate TOK_SEP TOK_HDATE TOK_SEP TOK_DATA TOK_SEP .
  >>


\* Productions of the V01 grammar: left-hand side and length of each rule.
RulesV01 ==
  <<
     [lhs |-> "$accept", len |-> 2, act |-> "accept"],  \* 0  $accept: start $end
     [lhs |-> "start", len |-> 1, act |-> "none"],  \* 1  start: filter
     [lhs |-> "start", len |-> 1, act |-> "none"],  \* 2  start: frames
     [lhs |-> "filter", len |-> 2, act |-> "none"],  \* 3  filter: TICFILTER etiquettes
     [lhs |-> "etiquettes", len |-> 1, act |-> "etiq_en1"],  \* 4  etiquettes: etiquette
     [lhs |-> "etiquettes", len |-> 2, act |-> "etiq_en2"],  \* 5  etiquettes: etiquettes etiquette
     [lhs |-> "etiquettes", len |-> 1, act |-> "yyabort"],  \* 6  etiquettes: error
     [lhs |-> "frames", len |-> 1, act |-> "none"],  \* 7  frames: frame
     [lhs |-> "frames", len |-> 2, act |-> "none"],  \* 8  frames: frames frame
     [lhs |-> "frame", len |-> 3, act |-> "frame_etx"],  \* 9  frame: TOK_STX datasets TOK_ETX
     [lhs |-> "frame", len |-> 3, act |-> "frame_eot"],  \* 10  frame: TOK_STX datasets TOK_EOT
     [lhs |-> "frame", len |-> 2, act |-> "frame_error"],  \* 11  frame: error TOK_ETX
     [lhs |-> "datasets", len |-> 1, act |-> "datasets_error"],  \* 12  datasets: error
     [lhs |-> "datasets", len |-> 1, act |-> "none"],  \* 13  datasets: dataset
     [lhs |-> "datasets", len |-> 2, act |-> "none"],  \* 14  datasets: datasets dataset
     [lhs |-> "dataset", len |-> 3, act |-> "dataset_ok"],  \* 15  dataset: FIELD_START field FIELD_OK
     [lhs |-> "dataset", len |-> 3, act |-> "dataset_ko"],  \* 16  dataset: FIELD_START field FIELD_KO
     [lhs |-> "dataset", len |-> 3, act |-> "dataset_error"],  \* 17  dataset: FIELD_START error FIELD_OK
     [lhs |-> "field", len |-> 4, act |-> "field_d"],  \* 18  field: etiquette TOK_SEP TOK_DATA TOK_SEP
     [lhs |-> "etiquette", len |-> 1, act |-> "etiquette"]   \* 19  etiquette: ET_N
  >>

\* LALR(1) automaton of the V01 grammar (state k is element k+1): shifts on tokens,
\* reductions that need the lookahead, gotos on nonterminals, and the default
\* reduction (-1: none; none in a state that can shift the error token).
StatesV01 ==
  <<
     [shift |-> {<<"TICFILTER", 4>>, <<"TOK_STX", 6>>, <<"error", 7>>}, red |-> {}, goto |-> {<<"start", 1>>, <<"filter", 2>>, <<"frames", 3>>, <<"frame", 5>>}, defact |-> -1],  \* 0  $accept: . start $end
     [shift |-> {<<"$end", 8>>}, red |-> {}, goto |-> {}, defact |-> -1],  \* 1  $accept: start . $end
     [shift |-> {}, red |-> {}, goto |-> {}, defact |-> 1],  \* 2  start: filter .
     [shift |-> {<<"TOK_STX", 6>>, <<"error", 7>>}, red |-> {<<"$end", 2>>}, goto |-> {<<"frame", 9>>}, defact |-> -1],  \* 3  start: frames .; frames: frames . frame
     [shift |-> {<<"error", 12>>, <<"ET_N", 13>>}, red |-> {}, goto |-> {<<"etiquettes", 10>>, <<"etiquette", 11>>}, defact |-> -1],  \* 4  filter: TICFILTER . etiquettes
     [shift |-> {}, red |-> {}, goto |-> {}, defact |-> 7],  \* 5  frames: frame .
     [shift |-> {<<"error", 15>>, <<"FIELD_START", 17>>}, red |-> {}, goto |-> {<<"datasets", 14>>, <<"dataset", 16>>}, defact |-> -1],  \* 6  frame: TOK_STX . datasets TOK_ETX; frame: TOK_STX . datasets TOK_EOT
     [shift |-> {<<"TOK_ETX", 18>>}, red |-> {}, goto |-> {}, defact |-> -1],  \* 7  frame: error . TOK_ETX
     [shift |-> {}, red |-> {}, goto |-> {}, defact |-> 0],  \* 8  $accept: start $end .
     [shift |-> {}, red |-> {}, goto |-> {}, defact |-> 8],  \* 9  frames: frames frame .
     [shift |-> {<<"ET_N", 13>>}, red |-> {}, goto |-> {<<"etiquette", 19>>}, defact |-> 3],  \* 10  filter: TICFILTER etiquettes .; etiquettes: etiquettes . etiquette
     [shift |-> {}, red |-> {}, goto |-> {}, defact |-> 4],  \* 11  etiquettes: etiquette .
     [shift |-> {}, red |-> {}, goto |-> {}, defact |-> 6],  \* 12  etiquettes: error .
     [shift |-> {}, red |-> {}, goto |-> {}, defact |-> 19],  \* 13  etiquette: ET_N .
     [shift |-> {<<"TOK_ETX", 20>>, <<"TOK_EOT", 21>>, <<"FIELD_START", 17>>}, red |-> {}, goto |-> {<<"dataset", 22>>}, defact |-> -1],  \* 14  frame: TOK_STX datasets . TOK_ETX; frame: TOK_STX datasets . TOK_EOT; datasets: datasets . dataset
     [shift |-> {}, red |-> {}, goto |-> {}, defact |-> 12],  \* 15  datasets: error .
     [shift |-> {}, red |-> {}, goto |-> {}, defact |-> 13],  \* 16  datasets: dataset .
     [shift |-> {<<"error", 24>>, <<"ET_N", 13>>}, red |-> {}, goto |-> {<<"field", 23>>, <<"etiquette", 25>>}, defact |-> -1],  \* 17  dataset: FIELD_START . field FIELD_OK; dataset: FIELD_START . field FIELD_KO; dataset: FIELD_START . error FIELD_OK
     [shift |-> {}, red |-> {}, goto |-> {}, defact |-> 11],  \* 18  frame: error TOK_ETX .
     [shift |-> {}, red |-> {}, goto |-> {}, defact |-> 5],  \* 19  etiquettes: etiquettes etiquette .
     [shift |-> {}, red |-> {}, goto |-> {}, defact |-> 9],  \* 20  frame: TOK_STX datasets TOK_ETX .
     [shift |-> {}, red |-> {}, goto |-> {}, defact |-> 10],  \* 21  frame: TOK_STX datasets TOK_EOT .
     [shift |-> {}, red |-> {}, goto |-> {}, defact |-> 14],  \* 22  datasets: datasets dataset .
     [shift |-> {<<"FIELD_OK", 26>>, <<"FIELD_KO", 27>>}, red |-> {}, goto |-> {}, defact |-> -1],  \* 23  dataset: FIELD_START field . FIELD_OK; dataset: FIELD_START field . FIELD_KO
     [shift |-> {<<"FIELD_OK", 28>>}, red |-> {}, goto |-> {}, defact |-> -1],  \* 24  dataset: FIELD_START error . FIELD_OK
     [shift |-> {<<"TOK_SEP", 29>>}, red |-> {}, goto |-> {}, defact |-> -1],  \* 25  field: etiquette . TOK_SEP TOK_DATA TOK_SEP
     [shift |-> {}, red |-> {}, goto |-> {}, defact |-> 15],  \* 26  dataset: FIELD_START field FIELD_OK .
     [shift |-> {}, red |-> {}, goto |-> {}, defact |-> 16],  \* 27  dataset: FIELD_START field FIELD_KO .
     [shift |-> {}, red |-> {}, goto |-> {}, defact |-> 17],  \* 28  dataset: FIELD_START error FIELD_OK .
     [shift |-> {<<"TOK_DATA", 30>>}, red |-> {}, goto |-> {}, defact |-> -1],  \* 29  field: etiquette TOK_SEP . TOK_DATA TOK_SEP
     [shift |-> {<<"TOK_SEP", 31>>}, red |-> {}, goto |-> {}, defact |-> -1],  \* 30  field: etiquette TOK_SEP TOK_DATA . TOK_SEP
     [shift |-> {}, red |-> {}, goto |-> {}, defact |-> 18]   \* 31  field: etiquette TOK_SEP TOK_DATA TOK_SEP .
  >>


\* Productions of the V01PME grammar: left-hand side and length of each rule.
RulesV01PME ==
  <<
     [lhs |-> "$accept", len |-> 2, act |-> "accept"],  \* 0  $accept: start $end
     [lhs |-> "start", len |-> 1, act |-> "none"],  \* 1  start: filter
     [lhs |-> "start", len |-> 1, act |-> "none"],  \* 2  start: frames
     [lhs |-> "filter", len |-> 2, act |-> "none"],  \* 3  filter: TICFILTER etiquettes
     [lhs |-> "etiquettes", len |-> 1, act |-> "etiq_en1"],  \* 4  etiquettes: etiquette
     [lhs |-> "etiquettes", len |-> 2, act |-> "etiq_en2"],  \* 5  etiquettes: etiquettes etiquette
     [lhs |-> "etiquettes", len |-> 1, act |-> "yyabort"],  \* 6  etiquettes: error
     [lhs |-> "etiquette", len |-> 1, act |-> "none"],  \* 7  etiquette: etiquette_horodate
     [lhs |-> "etiquette", len |-> 1, act |-> "none"],  \* 8  etiquette: etiquette_nodate
     [lhs |-> "etiquette", len |-> 1, act |-> "none"],  \* 9  etiquette: etiquette_ignored
     [lhs |-> "frames", len |-> 1, act |-> "none"],  \* 10  frames: frame
     [lhs |-> "frames", len |-> 2, act |-> "none"],  \* 11  frames: frames frame
     [lhs |-> "frame", len |-> 3, act |-> "frame_etx"],  \* 12  frame: TOK_STX datasets TOK_ETX
     [lhs |-> "frame", len |-> 3, act |-> "frame_eot"],  \* 13  frame: TOK_STX datasets TOK_EOT
     [lhs |-> "frame", len |-> 2, act |-> "frame_error"],  \* 14  frame: error TOK_EOT
     [lhs |-> "frame", len |-> 2, act |-> "frame_error"],  \* 15  frame: error TOK_ETX
     [lhs |-> "datasets", len |-> 1, act |-> "datasets_error"],  \* 16  datasets: error
     [lhs |-> "datasets", len |-> 1, act |-> "none"],  \* 17  datasets: dataset
     [lhs |-> "datasets", len |-> 2, act |-> "none"],  \* 18  datasets: datasets dataset
     [lhs |-> "dataset", len |-> 3, act |-> "dataset_ok"],  \* 19  dataset: FIELD_START field FIELD_OK
     [lhs |-> "dataset", len |-> 3, act |-> "dataset_ko"],  \* 20  dataset: FIELD_START field FIELD_KO
     [lhs |-> "dataset", len |-> 3, act |-> "dataset_error"],  \* 21  dataset: FIELD_START error FIELD_OK
     [lhs |-> "field", len |-> 1, act |-> "none"],  \* 22  field: field_horodate
     [lhs |-> "field", len |-> 1, act |-> "none"],  \* 23  field: field_nodate
     [lhs |-> "field", len |-> 1, act |-> "none"],  \* 24  field: field_ignored
     [lhs |-> "field_horodate", len |-> 3, act |-> "field_h"],  \* 25  field_horodate: etiquette_horodate TOK_SEP TOK_HDATE
     [lhs |-> "field_nodate", len |-> 3, act |-> "field_d"],  \* 26  field_nodate: etiquette_nodate TOK_SEP TOK_DATA
     [lhs |-> "field_ignored", len |-> 3, act |-> "field_ign1"],  \* 27  field_ignored: etiquette_ignored TOK_SEP TOK_DATA
     [lhs |-> "field_ignored", len |-> 3, act |-> "field_ign1"],  \* 28  field_ignored: etiquette_ignored TOK_SEP TOK_HDATE
     [lhs |-> "field_ignored", len |-> 4, act |-> "field_ign2"],  \* 29  field_ignored: etiquette_ignored TOK_SEP TOK_HDATE TOK_DATA
     [lhs |-> "etiquette_horodate", len |-> 1, act |-> "etiquette"],  \* 30  etiquette_horodate: ET_H
     [lhs |-> "etiquette_nodate", len |-> 1, act |-> "etiquette"],  \* 31  etiquette_nodate: ET_N
     [lhs |-> "etiquette_ignored", len |-> 1, act |-> "etiquette"]   \* 32  etiquette_ignored: ET_I
  >>

\* LALR(1) automaton of the V01PME grammar (state k is element k+1): shifts on tokens,
\* reductions that need the lookahead, gotos on nonterminals, and the default
\* reduction (-1: none; none in a state that can shift the error token).
StatesV01PME ==
  <<
     [shift |-> {<<"TICFILTER", 4>>, <<"TOK_STX", 6>>, <<"error", 7>>}, red |-> {}, goto |-> {<<"start", 1>>, <<"filter", 2>>, <<"frames", 3>>, <<"frame", 5>>}, defact |-> -1],  \* 0  $accept: . start $end
     [shift |-> {<<"$end", 8>>}, red |-> {}, goto |-> {}, defact |-> -1],  \* 1  $accept: start . $end
     [shift |-> {}, red |-> {}, goto |-> {}, defact |-> 1],  \* 2  start: filter .
     [shift |-> {<<"TOK_STX", 6>>, <<"error", 7>>}, red |-> {<<"$end", 2>>}, goto |-> {<<"frame", 9>>}, defact |-> -1],  \* 3  start: frames .; frames: frames . frame
     [shift |-> {<<"error", 12>>, <<"ET_H", 16>>, <<"ET_N", 17>>, <<"ET_I", 18>>}, red |-> {}, goto |-> {<<"etiquettes", 10>>, <<"etiquette", 11>>, <<"etiquette_horodate", 13>>, <<"etiquette_nodate", 14>>, <<"etiquette_ignored", 15>>}, defact |-> -1],  \* 4  filter: TICFILTER . etiquettes
     [shift |-> {}, red |-> {}, goto |-> {}, defact |-> 10],  \* 5  frames: frame .
     [shift |-> {<<"error", 20>>, <<"FIELD_START", 22>>}, red |-> {}, goto |-> {<<"datasets", 19>>, <<"dataset", 21>>}, defact |-> -1],  \* 6  frame: TOK_STX . datasets TOK_ETX; frame: TOK_STX . datasets TOK_EOT
     [shift |-> {<<"TOK_EOT", 23>>, <<"TOK_ETX", 24>>}, red |-> {}, goto |-> {}, defact |-> -1],  \* 7  frame: error . TOK_EOT; frame: error . TOK_ETX
     [shift |-> {}, red |-> {}, goto |-> {}, defact |-> 0],  \* 8  $accept: start $end .
     [shift |-> {}, red |-> {}, goto |-> {}, defact |-> 11],  \* 9  frames: frames frame .
     [shift |-> {<<"ET_H", 16>>, <<"ET_N", 17>>, <<"ET_I", 18>>}, red |-> {}, goto |-> {<<"etiquette", 25>>, <<"etiquette_horodate", 13>>, <<"etiquette_nodate", 14>>, <<"etiquette_ignored", 15>>}, defact |-> 3],  \* 10  filter: TICFILTER etiquettes .; etiquettes: etiquettes . etiquette
     [shift |-> {}, red |-> {}, goto |-> {}, defact |-> 4],  \* 11  etiquettes: etiquette .
     [shift |-> {}, red |-> {}, goto |-> {}, defact |-> 6],  \* 12  etiquettes: error .
     [shift |-> {}, red |-> {}, goto |-> {}, defact |-> 7],  \* 13  etiquette: etiquette_horodate .
     [shift |-> {}, red |-> {}, goto |-> {}, defact |-> 8],  \* 14  etiquette: etiquette_nodate .
     [shift |-> {}, red |-> {}, goto |-> {}, defact |-> 9],  \* 15  etiquette: etiquette_ignored .
     [shift |-> {}, red |-> {}, goto |-> {}, defact |-> 30],  \* 16  etiquette_horodate: ET_H .
     [shift |-> {}, red |-> {}, goto |-> {}, defact |-> 31],  \* 17  etiquette_nodate: ET_N .
     [shift |-> {}, red |-> {}, goto |-> {}, defact |-> 32],  \* 18  etiquette_ignored: ET_I .
     [shift |-> {<<"TOK_ETX", 26>>, <<"TOK_EOT", 27>>, <<"FIELD_START", 22>>}, red |-> {}, goto |-> {<<"dataset", 28>>}, defact |-> -1],  \* 19  frame: TOK_STX datasets . TOK_ETX; frame: TOK_STX datasets . TOK_EOT; datasets: datasets . dataset
     [shift |-> {}, red |-> {}, goto |-> {}, defact |-> 16],  \* 20  datasets: error .
     [shift |-> {}, red |-> {}, goto |-> {}, defact |-> 17],  \* 21  datasets: dataset .
     [shift |-> {<<"error", 30>>, <<"ET_H", 16>>, <<"ET_N", 17>>, <<"ET_I", 18>>}, red |-> {}, goto |-> {<<"field", 29>>, <<"field_horodate", 31>>, <<"field_nodate", 32>>, <<"field_ignored", 33>>, <<"etiquette_horodate", 34>>, <<"etiquette_nodate", 35>>, <<"etiquette_ignored", 36>>}, defact |-> -1],  \* 22  dataset: FIELD_START . field FIELD_OK; dataset: FIELD_START . field FIELD_KO; dataset: FIELD_START . error FIELD_OK
     [shift |-> {}, red |-> {}, goto |-> {}, defact |-> 14],  \* 23  frame: error TOK_EOT .
     [shift |-> {}, red |-> {}, goto |-> {}, defact |-> 15],  \* 24  frame: error TOK_ETX .
     [shift |-> {}, red |-> {}, goto |-> {}, defact |-> 5],  \* 25  etiquettes: etiquettes etiquette .
     [shift |-> {}, red |-> {}, goto |-> {}, defact |-> 12],  \* 26  frame: TOK_STX datasets TOK_ETX .
     [shift |-> {}, red |-> {}, goto |-> {}, defact |-> 13],  \* 27  frame: TOK_STX datasets TOK_EOT .
     [shift |-> {}, red |-> {}, goto |-> {}, defact |-> 18],  \* 28  datasets: datasets dataset .
     [shift |-> {<<"FIELD_OK", 37>>, <<"FIELD_KO", 38>>}, red |-> {}, goto |-> {}, defact |-> -1],  \* 29  dataset: FIELD_START field . FIELD_OK; dataset: FIELD_START field . FIELD_KO
     [shift |-> {<<"FIELD_OK", 39>>}, red |-> {}, goto |-> {}, defact |-> -1],  \* 30  dataset: FIELD_START error . FIELD_OK
     [shift |-> {}, red |-> {}, goto |-> {}, defact |-> 22],  \* 31  field: field_horodate .
     [shift |-> {}, red |-> {}, goto |-> {}, defact |-> 23],  \* 32  field: field_nodate .
     [shift |-> {}, red |-> {}, goto |-> {}, defact |-> 24],  \* 33  field: field_ignored .
     [shift |-> {<<"TOK_SEP", 40>>}, red |-> {}, goto |-> {}, defact |-> -1],  \* 34  field_horodate: etiquette_horodate . TOK_SEP TOK_HDATE
     [shift |-> {<<"TOK_SEP", 41>>}, red |-> {}, goto |-> {}, defact |-> -1],  \* 35  field_nodate: etiquette_nodate . TOK_SEP TOK_DATA
     [shift |-> {<<"TOK_SEP", 42>>}, red |-> {}, goto |-> {}, defact |-> -1],  \* 36  field_ignored: etiquette_ignored . TOK_SEP TOK_DATA; field_ignored: etiquette_ignored . TOK_SEP TOK_HDATE; field_ignored: etiquette_ignored . TOK_SEP TOK_HDATE TOK_DATA
     [shift |-> {}, red |-> {}, goto |-> {}, defact |-> 19],  \* 37  dataset: FIELD_START field FIELD_OK .
     [shift |-> {}, red |-> {}, goto |-> {}, defact |-> 20],  \* 38  dataset: FIELD_START field FIELD_KO .
     [shift |-> {}, red |-> {}, goto |-> {}, defact |-> 21],  \* 39  dataset: FIELD_START error FIELD_OK .
     [shift |-> {<<"TOK_HDATE", 43>>}, red |-> {}, goto |-> {}, defact |-> -1],  \* 40  field_horodate: etiquette_horodate TOK_SEP . TOK_HDATE
     [shift |-> {<<"TOK_DATA", 44>>}, red |-> {}, goto |-> {}, defact |-> -1],  \* 41  field_nodate: etiquette_nodate TOK_SEP . TOK_DATA
     [shift |-> {<<"TOK_DATA", 45>>, <<"TOK_HDATE", 46>>}, red |-> {}, goto |-> {}, defact |-> -1],  \* 42  field_ignored: etiquette_ignored TOK_SEP . TOK_DATA; field_ignored: etiquette_ignored TOK_SEP . TOK_HDATE; field_ignored: etiquette_ignored TOK_SEP . TOK_HDATE TOK_DATA
     [shift |-> {}, red |-> {}, goto |-> {}, defact |-> 25],  \* 43  field_horodate: etiquette_horodate TOK_SEP TOK_HDATE .
     [shift |-> {}, red |-> {}, goto |-> {}, defact |-> 26],  \* 44  field_nodate: etiquette_nodate TOK_SEP TOK_DATA .
     [shift |-> {}, red |-> {}, goto |-> {}, defact |-> 27],  \* 45  field_ignored: etiquette_ignored TOK_SEP TOK_DATA .
     [shift |-> {<<"TOK_DATA", 47>>}, red |-> {}, goto |-> {}, defact |-> 28],  \* 46  field_ignored: etiquette_ignored TOK_SEP TOK_HDATE .; field_ignored: etiquette_ignored TOK_SEP TOK_HDATE . TOK_DATA
     [shift |-> {}, red |-> {}, goto |-> {}, defact |-> 29]   \* 47  field_ignored: etiquette_ignored TOK_SEP TOK_HDATE TOK_DATA .
  >>

\* ------------------------------------------------------------------------
\* Parser tables (bison): accessors
\* ------------------------------------------------------------------------

Labels(d) ==
  CASE d = "V02" -> LabelsV02
    [] d = "V01" -> LabelsV01
    [] d = "V01PME" -> LabelsV01PME

Etiq(d) ==
  CASE d = "V02" -> EtiqV02
    [] d = "V01" -> EtiqV01
    [] d = "V01PME" -> EtiqV01PME

Rules(d) ==
  CASE d = "V02" -> RulesV02
    [] d = "V01" -> RulesV01
    [] d = "V01PME" -> RulesV01PME

States(d) ==
  CASE d = "V02" -> StatesV02
    [] d = "V01" -> StatesV01
    [] d = "V01PME" -> StatesV01PME

\* the state entered by shifting $end: the parser accepts there
YYFINAL == 8

\* yychar when no lookahead token has been read
YYEMPTY == "YYEMPTY"

\* a null pointer, as opposed to the empty string <<>>
NULL == <<-1>>

\* bool *etiq_en is the null pointer: no filter was configured
NoFilter == <<"NULL">>

\* yytranslate: the grammar symbol of a token the scanner returned; a label token
\* is one of the etiquette alternatives, anything the grammar does not declare is
\* the undefined token
yytranslate(d, tok) ==
  IF tok \in DOMAIN Etiq(d) THEN Etiq(d)[tok].cls
  ELSE IF tok \in {"ET_GAZ", "ET_AUTRE"} THEN "$undefined"
  ELSE tok

Lookup(pairs, sym) ==
  IF \E p \in pairs : p[1] = sym THEN (CHOOSE p \in pairs : p[1] = sym)[2] ELSE -1

\* yypact[state] is the "default" value: the state has no action that
\* depends on the lookahead
PactDefault(d, s) == States(d)[s + 1].shift = {} /\ States(d)[s + 1].red = {}

ShiftTo(d, s, sym) == Lookup(States(d)[s + 1].shift, sym)

GotoOf(d, s, nt) == Lookup(States(d)[s + 1].goto, nt)

\* the rule to reduce by in state s with lookahead symbol sym (-1: none)
ReduceBy(d, s, sym) ==
  LET st == States(d)[s + 1]
  IN  IF Lookup(st.red, sym) >= 0 THEN Lookup(st.red, sym) ELSE st.defact

\* ------------------------------------------------------------------------
\* Field construction (tic.c)
\* ------------------------------------------------------------------------

\* the build defines TICV01pme for every dialect it contains
TICV01pme == TRUE

DigitVal(b) ==
  CASE b \in 48..57 -> b - 48
    [] b \in 65..90 -> b - 55
    [] b \in 97..122 -> b - 87
    [] OTHER -> 99

RECURSIVE SkipSpace(_)
SkipSpace(s) == IF s # <<>> /\ (s[1] = 32 \/ s[1] \in 9..13) THEN SkipSpace(Tail(s)) ELSE s

\* acc * base + digit of (int)strtol(): the cast cuts the long to its low
\* 32 bits, read as a signed number (0xFFFFFFFF is -1); the digits are summed
\* in that width, which is exact as long as the long itself does not overflow
MulAdd32(acc, base, digit) ==
  LET lo == (acc % 65536) * base + digit
      hi == ((acc \div 65536) * base + (lo \div 65536)) % 65536
  IN  (IF hi >= 32768 THEN hi - 65536 ELSE hi) * 65536 + (lo % 65536)

RECURSIVE Digits(_, _, _)
\* value and rest after the longest run of digits of the base
Digits(s, base, acc) ==
  IF s # <<>> /\ DigitVal(s[1]) < base
  THEN Digits(Tail(s), base, MulAdd32(acc, base, DigitVal(s[1])))
  ELSE [val |-> acc, rem |-> s]

\* strtol(data, &rem, base) for base 10 and 16, on payloads short enough not to overflow
strtol(s, base) ==
  LET t == SkipSpace(s)
      neg == t # <<>> /\ t[1] = 45
      u == IF t # <<>> /\ t[1] \in {43, 45} THEN Tail(t) ELSE t
      v == IF base = 16 /\ Len(u) >= 3 /\ u[1] = 48 /\ u[2] \in {88, 120} /\ DigitVal(u[3]) < 16
           THEN Tail(Tail(u)) ELSE u
      r == Digits(v, base, 0)
  IN  IF v = <<>> \/ DigitVal(v[1]) >= base
      THEN [val |-> 0, rem |-> s]
      ELSE [val |-> IF neg THEN 0 - r.val ELSE r.val, rem |-> r.rem]

\* a make_field() without the profile case: the day profile goes to strtol()
make_fieldNoProfile(etiq, horodate, data) ==
  CASE etiq.type = "T_IGN" ->
         [etiq |-> etiq, horodate |-> horodate, data |-> [kind |-> "unset", v |-> 0]]
    [] etiq.type = "T_STRING" ->
         [etiq |-> etiq, horodate |-> horodate, data |-> [kind |-> "s", v |-> data]]
    [] OTHER ->
         LET n == strtol(data, IF etiq.type = "T_HEX" THEN 16 ELSE 10)
         IN  [etiq |-> etiq, horodate |-> horodate, data |-> [kind |-> "i", v |-> n.val]]

\* a make_field() that looks at the first byte after the number instead of the
\* last byte of the payload
make_fieldFirstByte(etiq, horodate, data) ==
  CASE etiq.type = "T_IGN" ->
         [etiq |-> etiq, horodate |-> horodate, data |-> [kind |-> "unset", v |-> 0]]
    [] etiq.type \in {"T_STRING", "T_PROFILE"} ->
         [etiq |-> etiq, horodate |-> horodate, data |-> [kind |-> "s", v |-> data]]
    [] OTHER ->
         LET n == strtol(data, IF etiq.type = "T_HEX" THEN 16 ELSE 10)
             suffix == TICV01pme /\ etiq.unit = "U_SANS" /\ etiq.type = "T_INT"
                       /\ data # <<>> /\ n.rem # <<>>
             unit == IF suffix /\ n.rem[1] = 65 THEN "U_KVA"
                     ELSE IF suffix /\ n.rem[1] = 87 THEN "U_KW"
                     ELSE etiq.unit
         IN  [etiq |-> [etiq EXCEPT !.unit = unit], horodate |-> horodate,
              data |-> [kind |-> "i", v |-> n.val]]

\* make_field() with a non-null payload, or with an etiquette that does not read it
make_field(etiq, horodate, data) ==
  CASE etiq.type = "T_IGN" ->
         [etiq |-> etiq, horodate |-> horodate, data |-> [kind |-> "unset", v |-> 0]]
    [] etiq.type \in {"T_STRING", "T_PROFILE"} ->
         [etiq |-> etiq, horodate |-> horodate, data |-> [kind |-> "s", v |-> data]]
    [] OTHER ->
         LET n == strtol(data, IF etiq.type = "T_HEX" THEN 16 ELSE 10)
             suffix == TICV01pme /\ etiq.unit = "U_SANS" /\ etiq.type = "T_INT"
                       /\ data # <<>> /\ n.rem # <<>>
             unit == IF suffix /\ n.rem[Len(n.rem)] = 65 THEN "U_KVA"
                     ELSE IF suffix /\ n.rem[Len(n.rem)] = 87 THEN "U_KW"
                     ELSE etiq.unit
         IN  [etiq |-> [etiq EXCEPT !.unit = unit], horodate |-> horodate,
              data |-> [kind |-> "i", v |-> n.val]]

\* make_field() reads the payload: types other than string, profile and ignored
ReadsPayload(etiq) == etiq.type \notin {"T_IGN", "T_STRING", "T_PROFILE"}

\* ------------------------------------------------------------------------
\* JSON sink (tic2json.c)
\* ------------------------------------------------------------------------

\* "%.8s": at most eight bytes of the label
Label8(label) == SubSeq(label, 1, IF Len(label) > 8 THEN 8 ELSE Len(label))

\* what print_field() writes for a field: the delimiter, the label, then the
\* payload as "%s" between quotes (s) or as "%ld" (v), then the horodate as "%s"
\* between quotes when there is one. key is the token of the label
Item(fdelim, field) ==
  [delim |-> fdelim, key |-> field.etiq.tok, label |-> Label8(field.etiq.label),
   s |-> IF field.data.kind # "s" THEN NULL
         ELSE IF field.data.v = NULL THEN <<>> ELSE field.data.v,
   v |-> IF field.data.kind = "i" THEN field.data.v ELSE -1,
   horodate |-> field.horodate]

\* a print_field() that leaves tp.fdelim as it found it
print_fieldSameDelim(tp, etiq_en, out, field) ==
  IF \/ tp.framecount # 0
     \/ field.etiq.type = "T_IGN"
     \/ /\ "MASKZEROES" \in tp.optflags
        /\ field.etiq.type \notin {"T_STRING", "T_PROFILE"}
        /\ field.data.v = 0
     \/ etiq_en # NoFilter /\ \A i \in DOMAIN etiq_en : etiq_en[i] # field.etiq.tok
  THEN [tp |-> tp, out |-> out]
  ELSE [tp |-> tp, out |-> [out EXCEPT !.cur = Append(@, Item(tp.fdelim, field))]]

\* a print_field() that writes the datasets of ignored type as well
print_fieldIgnoredToo(tp, etiq_en, out, field) ==
  IF \/ tp.framecount # 0
     \/ /\ "MASKZEROES" \in tp.optflags
        /\ field.etiq.type \notin {"T_STRING", "T_PROFILE"}
        /\ field.data.v = 0
     \/ etiq_en # NoFilter /\ \A i \in DOMAIN etiq_en : etiq_en[i] # field.etiq.tok
  THEN [tp |-> tp, out |-> out]
  ELSE [tp |-> [tp EXCEPT !.fdelim = ","],
        out |-> [out EXCEPT !.cur = Append(@, Item(tp.fdelim, field))]]

\* a print_field() whose zero masking leaves the hex payloads alone
print_fieldHexKept(tp, etiq_en, out, field) ==
  IF \/ tp.framecount # 0
     \/ field.etiq.type = "T_IGN"
     \/ /\ "MASKZEROES" \in tp.optflags
        /\ field.etiq.type \notin {"T_STRING", "T_PROFILE", "T_HEX"}
        /\ field.data.v = 0
     \/ etiq_en # NoFilter /\ \A i \in DOMAIN etiq_en : etiq_en[i] # field.etiq.tok
  THEN [tp |-> tp, out |-> out]
  ELSE [tp |-> [tp EXCEPT !.fdelim = ","],
        out |-> [out EXCEPT !.cur = Append(@, Item(tp.fdelim, field))]]

\* a print_field() that does not look at the label filter
print_fieldUnfiltered(tp, etiq_en, out, field) ==
  IF \/ tp.framecount # 0
     \/ field.etiq.type = "T_IGN"
     \/ /\ "MASKZEROES" \in tp.optflags
        /\ field.etiq.type \notin {"T_STRING", "T_PROFILE"}
        /\ field.data.v = 0
  THEN [tp |-> tp, out |-> out]
  ELSE [tp |-> [tp EXCEPT !.fdelim = ","],
        out |-> [out EXCEPT !.cur = Append(@, Item(tp.fdelim, field))]]

\* print_field(): the filters, then one item written to the open root object
print_field(tp, etiq_en, out, field) ==
  IF \/ tp.framecount # 0
     \/ field.etiq.type = "T_IGN"
     \/ /\ "MASKZEROES" \in tp.optflags
        /\ field.etiq.type \notin {"T_STRING", "T_PROFILE"}
        /\ field.data.v = 0
     \/ etiq_en # NoFilter /\ \A i \in DOMAIN etiq_en : etiq_en[i] # field.etiq.tok
  THEN [tp |-> tp, out |-> out]
  ELSE [tp |-> [tp EXCEPT !.fdelim = ","],
        out |-> [out EXCEPT !.cur = Append(@, Item(tp.fdelim, field))]]

\* a frame_sep() that writes the root object of a valid frame only and drops
\* the items of an invalid one
frame_sepValidOnly(tp, out) ==
  LET emit == tp.framecount = 0
      items == IF "DICTOUT" \in tp.optflags
               THEN Append(out.cur, [delim |-> tp.fdelim, key |-> "_tvalide",
                                     label |-> <<>>, s |-> NULL,
                                     v |-> IF tp.ferr THEN 0 ELSE 1, horodate |-> NULL])
               ELSE out.cur
  IN  [tp |-> [tp EXCEPT !.framecount = IF emit THEN tp.skipframes ELSE @ - 1,
                         !.fdelim = " ", !.ferr = FALSE],
       out |-> IF emit /\ ~ tp.ferr
               THEN [out EXCEPT !.cur = <<>>, !.last = items, !.nobjs = @ + 1]
               ELSE [out EXCEPT !.cur = <<>>]]

\* frame_sep(): closes the root object of an emitted frame, clears the frame state
frame_sep(tp, out) ==
  LET emit == tp.framecount = 0
      items == IF "DICTOUT" \in tp.optflags
               THEN Append(out.cur, [delim |-> tp.fdelim, key |-> "_tvalide",
                                     label |-> <<>>, s |-> NULL,
                                     v |-> IF tp.ferr THEN 0 ELSE 1, horodate |-> NULL])
               ELSE out.cur
  IN  [tp |-> [tp EXCEPT !.framecount = IF emit THEN tp.skipframes ELSE @ - 1,
                         !.fdelim = " ", !.ferr = FALSE],
       out |-> IF emit THEN [out EXCEPT !.cur = <<>>, !.last = items, !.nobjs = @ + 1]
               ELSE out]

\* frame_err()
frame_err(tp) == [tp EXCEPT !.ferr = TRUE]

\* a bit field read without its mask
BitFieldUnmasked(d, shift, mask) == d \div (2 ^ shift)

\* (d >> shift) & mask, for the masks 2^k - 1 of print_stge_data(); d is the
\* uint32_t kept as a signed number, \div rounds down
BitField(d, shift, mask) == (d \div (2 ^ shift)) % (mask + 1)

\* print_stge_data(): the 18 members of the object written for the status
\* register, in the order of the format string. key: the member (accents
\* dropped), i: the bit field read, size: the length of the table it indexes
\* (0: the field is not an index), v: what is written, "NULL" standing for a
\* null table entry and "out of bounds" for a read past the table
print_stge_data(data) ==
  LET d == data
      of == <<"ferme", "ouvert">>
      coupure == <<"ferme", "ouvert sur surpuissance", "ouvert sur surtension",
                   "ouvert sur delestage", "ouvert sur ordre CPL ou Euridis",
                   "ouvert sur une surchauffe avec une valeur de courant superieure au courant de commutation maximal",
                   "ouvert sur une surchauffe avec une valeur de courant inferieure au courant de commutation maximal",
                   "NULL">>
      euridis == <<"desactivee", "activee sans securite", "NULL", "activee avec securite">>
      cpl == <<"New/Unlock", "New/Lock", "Registered", "NULL">>
      tempo == <<"Pas d'annonce", "Bleu", "Blanc", "Rouge">>
      pm == <<"pas en cours", "PM1 en cours", "PM2 en cours", "PM3 en cours">>
      tab(key, t, shift, mask) ==
        [key |-> key, i |-> BitField(d, shift, mask), size |-> Len(t),
         v |-> IF BitField(d, shift, mask) \in 0..(Len(t) - 1)
               THEN t[BitField(d, shift, mask) + 1] ELSE "out of bounds"]
      flag(key, shift, yes, no) ==
        [key |-> key, i |-> BitField(d, shift, 1), size |-> 0,
         v |-> IF BitField(d, shift, 1) # 0 THEN yes ELSE no]
      index(key, shift, mask) ==
        [key |-> key, i |-> BitField(d, shift, mask), size |-> 0,
         v |-> BitField(d, shift, mask) + 1]
  IN  << tab("Contact sec", of, 0, 1),
         tab("Organe de coupure", coupure, 1, 7),
         tab("Etat du cache-bornes distributeur", of, 4, 1),
         flag("Surtension sur une des phases", 6, "surtension", "pas de surtension"),
         flag("Depassement de la puissance de reference", 7,
              "depassement en cours", "pas de depassement"),
         flag("Fonctionnement producteur/consommateur", 8, "producteur", "consommateur"),
         flag("Sens de l'energie active", 9,
              "energie active negative", "energie active positive"),
         index("Tarif en cours sur le contrat fourniture", 10, 15),
         index("Tarif en cours sur le contrat distributeur", 14, 7),
         flag("Mode degrade de l'horloge", 16,
              "horloge en mode degradee", "horloge correcte"),
         flag("Etat de la sortie tele-information", 17, "mode standard", "mode historique"),
         tab("Etat de la sortie communication Euridis", euridis, 19, 3),
         tab("Statut du CPL", cpl, 21, 3),
         flag("Synchronisation CPL", 23, "compteur synchronise", "compteur non synchronise"),
         tab("Couleur du jour pour le contrat historique tempo", tempo, 24, 3),
         tab("Couleur du lendemain pour le contrat historique tempo", tempo, 26, 3),
         tab("Preavis pointes mobiles", pm, 28, 3),
         tab("Pointe mobile", pm, 30, 3) >>

RECURSIVE strsep_blocksUnbounded(_, _)
\* a splitting loop that never leaves on the count of blocks
strsep_blocksUnbounded(data, argv) ==
  IF data = NULL THEN argv
  ELSE LET n == IF \E i \in DOMAIN data : data[i] = SP
                THEN CHOOSE i \in DOMAIN data :
                       data[i] = SP /\ \A j \in 1..(i - 1) : data[j] # SP
                ELSE 0
           tok == IF n = 0 THEN data ELSE SubSeq(data, 1, n - 1)
           rest == IF n = 0 THEN NULL ELSE SubSeq(data, n + 1, Len(data))
       IN  IF tok = <<>> THEN strsep_blocksUnbounded(rest, argv)
           ELSE strsep_blocksUnbounded(rest, Append(argv, tok))

RECURSIVE strsep_blocks(_, _)
\* the splitting loop of print_pjour_data(): *ap = strsep(&data, " ") cuts the
\* next token off data (NULL once the string is used up); an empty token is
\* overwritten by the next one, a block is kept by ++ap, and the loop leaves
\* when ap reaches &argv[11]. argv: the blocks kept so far, ap = Len(argv);
\* the closing *ap = NULL is written at argv[Len(result)]
strsep_blocks(data, argv) ==
  IF data = NULL THEN argv
  ELSE LET n == IF \E i \in DOMAIN data : data[i] = SP
                THEN CHOOSE i \in DOMAIN data :
                       data[i] = SP /\ \A j \in 1..(i - 1) : data[j] # SP
                ELSE 0
           tok == IF n = 0 THEN data ELSE SubSeq(data, 1, n - 1)
           rest == IF n = 0 THEN NULL ELSE SubSeq(data, n + 1, Len(data))
       IN  IF tok = <<>> THEN strsep_blocks(rest, argv)
           ELSE IF Len(argv) + 1 >= 11 THEN Append(argv, tok)
           ELSE strsep_blocks(rest, Append(argv, tok))

\* print_pjour_data(): argc blocks are kept, the null pointer that closes the
\* list is written at argv[argc] of char *argv[12]; one object is written for
\* each block before the first one that begins with 'N'. start_time is
\* "%.2s:%.2s" of d and d + 2, action is (uint16_t)strtol(d + 4, NULL, 16)
print_pjour_data(data) ==
  LET argv == strsep_blocks(data, <<>>)
      stop == IF \E i \in DOMAIN argv : argv[i][1] = 78
              THEN CHOOSE i \in DOMAIN argv :
                     argv[i][1] = 78 /\ \A j \in 1..(i - 1) : argv[j][1] # 78
              ELSE Len(argv) + 1
      s2(d, k) == SubSeq(d, k + 1, IF Len(d) < k + 2 THEN Len(d) ELSE k + 2)
  IN  [argc |-> Len(argv),
       objs |-> [i \in 1..(stop - 1) |->
                   [start_time |-> s2(argv[i], 0) \o <<58>> \o s2(argv[i], 2),
                    action |-> strtol(SubSeq(argv[i], 5, Len(argv[i])), 16).val % 65536]]]

\* a horodate member that is written as it is whatever the options
print_horodateRaw(version, optflags, d) == d

\* the horodate member of print_field(): with LONGDATE the horodate is cut at
\* fixed offsets, "%.2s" each, into 20AA-MM-JJThh:mm:ss and, in V02, followed
\* by the offset its first byte selects; V01 writes nothing (NULL); without
\* LONGDATE the horodate is written as it is
print_horodate(version, optflags, d) ==
  LET s2(k) == SubSeq(d, k + 1, IF Len(d) < k + 2 THEN Len(d) ELSE k + 2)
      o == IF d # <<>> /\ d[1] \in {69, 101} THEN <<43, 48, 50, 58, 48, 48>>
           ELSE IF d # <<>> /\ d[1] \in {72, 104} THEN <<43, 48, 49, 58, 48, 48>>
           ELSE <<>>
  IN  IF "LONGDATE" \notin optflags THEN d
      ELSE CASE version = "V02" ->
                  <<50, 48>> \o s2(1) \o <<45>> \o s2(3) \o <<45>> \o s2(5) \o <<84>>
                  \o s2(7) \o <<58>> \o s2(9) \o <<58>> \o s2(11) \o o
             [] version = "V01PME" ->
                  <<50, 48>> \o s2(6) \o <<45>> \o s2(3) \o <<45>> \o s2(0) \o <<84>>
                  \o s2(9) \o <<58>> \o s2(12) \o <<58>> \o s2(15)
             [] OTHER -> NULL

\* ------------------------------------------------------------------------
\* Input: what the reader may deliver, in chunks of bytes
\* ------------------------------------------------------------------------

\* the checksum byte the wire format defines for the covered bytes
WireCk(covered) == (SumBytes(covered) % 64) + 32

\* the bytes of a dataset the checksum covers. body is the dataset up to the
\* byte before the checksum, LF included. V02: everything after the LF;
\* V01, V01PME: the separator before the checksum is left out as well
Covered(d, body) ==
  IF d = "V02" THEN Tail(body) ELSE SubSeq(body, 2, Len(body) - 1)

\* datasets of legal shape used as input, up to the byte before the checksum:
\*   V02     ADSC HT 1 HT | ADSC HT H210715143012 HT | DATE HT E210715143012 HT HT
\*           | UMOY1 HT E210715143012 HT HT
\*   V01     ADCO SP 1 SP
\*   V01PME  ADS SP 1 SP | DATEPA3 SP 15/07/21 14:30:12 SP
SampleBodies(d) ==
  CASE d = "V02" ->
         {<<LF, 65, 68, 83, 67, HT, 49, HT>>,
          <<LF, 65, 68, 83, 67, HT, 72, 50, 49, 48, 55, 49, 53, 49, 52, 51, 48, 49, 50, HT>>,
          <<LF, 68, 65, 84, 69, HT, 69, 50, 49, 48, 55, 49, 53, 49, 52, 51, 48, 49, 50, HT, HT>>,
          <<LF, 85, 77, 79, 89, 49, HT, 69, 50, 49, 48, 55, 49, 53, 49, 52, 51, 48, 49, 50, HT, HT>>}
    [] d = "V01" ->
         {<<LF, 65, 68, 67, 79, SP, 49, SP>>}
    [] d = "V01PME" ->
         {<<LF, 65, 68, 83, SP, 49, SP>>,
          <<LF, 68, 65, 84, 69, 80, 65, 51, SP, 49, 53, 47, 48, 55, 47, 50, 49, 32, 49, 52, 58, 51, 48, 58, 49, 50, SP>>}

\* the sample dataset whose checksum byte is also delivered wrong
KoBody(d) ==
  CASE d = "V02" -> <<LF, 65, 68, 83, 67, HT, 49, HT>>
    [] d = "V01" -> <<LF, 65, 68, 67, 79, SP, 49, SP>>
    [] d = "V01PME" -> <<LF, 65, 68, 83, SP, 49, SP>>

\* a dataset with a label no scanner knows: x SEP 1 SEP
UnknownBody(d) == <<LF, 120, SEP(d), 49, SEP(d)>>

\* a checksum byte of CHKSUM other than the right one
WrongCk(c) == 32 + ((c - 32 + 1) % 64)

\* a dataset whose data is the one byte ": label SEP " SEP
QuoteBody(d) == SubSeq(KoBody(d), 1, Len(KoBody(d)) - 2) \o <<34, SEP(d)>>

\* a dataset whose label the V01PME scanner returns as ET_IGNORED: TGPHI_s SP 1 SP
IgnoredBody == <<LF, 84, 71, 80, 72, 73, 95, 115, SP, 49, SP>>

\* datasets of legal shape that only the first frame of a stream carries

KnownBodies(d) ==
  SampleBodies(d) \cup {QuoteBody(d)} \cup (IF d = "V01PME" THEN {IgnoredBody} ELSE {})

\* the bytes of a dataset on the wire: body, checksum byte, CR
Dataset(d, body) == body \o <<WireCk(Covered(d, body)), CR>>

\* the same with a wrong checksum byte
DatasetKo(d, body) == body \o <<WrongCk(WireCk(Covered(d, body))), CR>>

\* first frames of a stream: one valid dataset, one dataset with a quote as data,
\* a dataset with a wrong checksum followed by one with an unknown label, a
\* dataset with a second payload (label SEP 1 SEP 2 SEP), a frame that stops
\* in the payload of its first dataset (label SEP 1), a numeric dataset of
\* value zero between two others (V02 RELAIS HT 000 HT, V01 PPOT SP 00 SP,
\* V01PME PS SP 0 SP), and for V01PME one ignored dataset with a right and
\* with a wrong checksum
FirstFrames(d) ==
  {<<STX>> \o Dataset(d, KoBody(d)) \o <<ETX>>,
   <<STX>> \o Dataset(d, KoBody(d))
           \o Dataset(d, CASE d = "V02" -> <<LF, 82, 69, 76, 65, 73, 83, HT, 48, 48, 48, HT>>
                            [] d = "V01" -> <<LF, 80, 80, 79, 84, SP, 48, 48, SP>>
                            [] d = "V01PME" -> <<LF, 80, 83, SP, 48, SP>>)
           \o Dataset(d, KoBody(d)) \o <<ETX>>,
   <<STX>> \o Dataset(d, QuoteBody(d)) \o <<ETX>>,
   <<STX>> \o DatasetKo(d, KoBody(d)) \o Dataset(d, UnknownBody(d)) \o <<ETX>>,
   <<STX>> \o Dataset(d, KoBody(d) \o <<50, SEP(d)>>) \o <<ETX>>,
   <<STX>> \o SubSeq(KoBody(d), 1, Len(KoBody(d)) - 1)}
  \cup (IF d = "V01PME"
        THEN {<<STX>> \o Dataset(d, IgnoredBody) \o <<ETX>>,
              <<STX>> \o DatasetKo(d, IgnoredBody) \o <<ETX>>}
        ELSE {})

\* the chunks the reader may deliver: frame delimiters, a NUL, a stray byte,
\* whole datasets with their right checksum, one with a wrong checksum
Chunks(d) ==
  {<<STX>>, <<ETX>>, <<NUL>>, <<120>>}
  \cup (IF d = "V02" THEN {} ELSE {<<EOT>>})
  \cup {b \o <<WireCk(Covered(d, b)), CR>> : b \in SampleBodies(d) \cup {UnknownBody(d)}}
  \cup {KoBody(d) \o <<WrongCk(WireCk(Covered(d, KoBody(d)))), CR>>}

\* ------------------------------------------------------------------------
\* State
\* ------------------------------------------------------------------------

VARIABLES
  dialect,      \* the dialect selected on the command line (-1, -2, -P)
  tp,           \* struct tp: optflags, skipframes, framecount, fdelim, ferr
  etiq_en,      \* the label filter, NULL when none was configured
  filter_mode,  \* scanner and parser are reading the filter configuration
  out,          \* stdout: items of the open root object, last closed object, count
  buf,          \* bytes read from the input and not yet consumed by the scanner
  eof,          \* the reader reported end of input
  nread,        \* chunks delivered so far
  yy_start,     \* start condition of the scanner
  checksum,     \* static uint8_t checksum of the scanner
  yyss,         \* parser state stack
  yyvs,         \* parser semantic value stack
  yychar,       \* lookahead token, YYEMPTY when none
  yylval,       \* semantic value of the lookahead
  yyerrstatus,  \* tokens left to shift before errors are reported again
  pc,           \* where main() is: in yyparse ("yybackup"), after it, ended
  yyresult,     \* value yyparse() returned
  obs           \* observer of the run: wire bytes and output history

vars ==
  <<dialect, tp, etiq_en, filter_mode, out, buf, eof, nread, yy_start, checksum,
    yyss, yyvs, yychar, yylval, yyerrstatus, pc, yyresult, obs>>

Top == yyss[Len(yyss)]

\* yyparse() is about to call yylex(): everything read so far has been acted upon
WantsToken ==
  /\ pc = "yybackup"
  /\ Top # YYFINAL
  /\ ~ PactDefault(dialect, Top)
  /\ yychar = YYEMPTY

\* ------------------------------------------------------------------------
\* Observer: the bytes on the wire and what was emitted for them
\* ------------------------------------------------------------------------

\* w is the beginning of a dataset of the sample, checksum byte and CR included
SamplePrefix(d, w) ==
  \E b \in KnownBodies(d) :
    \/ IsPrefix(w, b)
    \/ /\ IsPrefix(b, w)
       /\ Len(w) <= Len(b) + 2
       /\ Len(w) = Len(b) + 2 => w[Len(w)] = CR

\* w is a whole dataset of the sample: LF ... SEP ck CR
WireComplete(d, w) ==
  \E b \in KnownBodies(d) : IsPrefix(b, w) /\ Len(w) = Len(b) + 2 /\ w[Len(w)] = CR

\* the checksum byte of the whole dataset w is the one the wire format defines
WireCkOk(d, w) ==
  w[Len(w) - 1] = WireCk(Covered(d, SubSeq(w, 1, Len(w) - 2)))

\* the bytes on the wire since the last LF, as long as they begin a sample dataset
NextWire(d, w, text) ==
  IF text = <<LF>> THEN <<LF>>
  ELSE IF w # <<>> /\ SamplePrefix(d, w \o text) THEN w \o text
  ELSE <<>>

\* position with respect to the frames on the wire: an STX opens a frame, the
\* ETX (or EOT) that follows closes it
NextWf(wf, tok) ==
  CASE tok = "TOK_STX" -> "in"
    [] tok \in {"TOK_ETX", "TOK_EOT"} /\ wf = "in" -> "closed"
    [] wf = "closed" -> "out"
    [] OTHER -> wf

\* inside a frame, between two datasets
AtBoundary(o, d) == (o.wire = <<>> /\ ~ o.sawLF) \/ WireComplete(d, o.wire)

\* the token keeps the stream a sequence of frames STX dataset* ETX|EOT
\* made of datasets of legal shape
RegularTok(o, d, tok, text) ==
  IF o.wf # "in" THEN tok = "TOK_STX"
  ELSE CASE tok = "TOK_STX" -> FALSE
         [] tok \in {"TOK_ETX", "TOK_EOT"} \/ text = <<LF>> -> AtBoundary(o, d)
         [] OTHER -> NextWire(d, o.wire, text) # <<>>

\* the token keeps the stream a sequence of frames whose only faults are inside
\* datasets: after an LF, and up to the next LF or frame delimiter
FramedTok(o, tok, text) ==
  IF o.wf # "in" THEN tok = "TOK_STX"
  ELSE /\ tok # "TOK_STX"
       /\ tok \in {"TOK_ETX", "TOK_EOT"} \/ text = <<LF>> \/ o.sawLF

\* the token keeps the stream a sequence of regular frames with any bytes
\* before, between and after them
OuterTok(o, d, tok, text) == o.wf # "in" \/ RegularTok(o, d, tok, text)

\* owed: a frame was closed on the wire, the next token has been read, and
\* frame_sep() has not run since; emitted: frames frame_sep() closed a root
\* object for; gap: frames frame_sep() skipped since the last one it emitted;
\* cfgOk: the configuration file is well formed; words: the words after its
\* first line; listed: the tags of the labels among them; cfg: the filter configuration file, NULL without
\* one; cfgSink: print_field() or frame_sep() ran while the file was read;
\* live: buffers the scanner has allocated with strdup() less those handed to
\* free()
ObsInit ==
  [wire |-> <<>>, printed |-> FALSE, wf |-> "out", seps |-> 0, lastSep |-> -1,
   ko |-> FALSE, eot |-> FALSE, sawLF |-> FALSE, hasDs |-> FALSE, unrec |-> FALSE,
   faulty |-> FALSE, regular |-> TRUE, framed |-> TRUE, outer |-> TRUE,
   owed |-> FALSE, emitted |-> 0, gap |-> 0, cfg |-> NULL, cfgOk |-> FALSE,
   words |-> {}, listed |-> {}, cfgSink |-> FALSE, live |-> 0]

\* the token opens a frame, or is the first one after a frame was closed
Fresh(o, tok) == tok = "TOK_STX" \/ o.wf = "closed"

\* the scanner consumed `text` and returned `tok`
ObsToken(o, d, tok, text) ==
  [wire |-> NextWire(d, o.wire, text),
   printed |-> FALSE,
   wf |-> NextWf(o.wf, tok),
   seps |-> IF Fresh(o, tok) THEN 0 ELSE o.seps,
   lastSep |-> IF Fresh(o, tok) THEN -1 ELSE o.lastSep,
   ko |-> IF Fresh(o, tok) THEN FALSE ELSE o.ko \/ (tok = "FIELD_KO" /\ o.wf = "in"),
   eot |-> IF Fresh(o, tok) THEN FALSE ELSE o.eot \/ (tok = "TOK_EOT" /\ o.wf = "in"),
   sawLF |-> IF Fresh(o, tok) THEN FALSE ELSE o.sawLF \/ text = <<LF>>,
   hasDs |-> IF Fresh(o, tok) THEN FALSE
             ELSE o.hasDs \/ (o.wf = "in" /\ WireComplete(d, NextWire(d, o.wire, text))),
   unrec |-> IF Fresh(o, tok) THEN FALSE ELSE o.unrec,
   faulty |-> IF Fresh(o, tok) THEN FALSE
              ELSE o.faulty \/ (o.wf = "in" /\ ~ RegularTok(o, d, tok, text)),
   regular |-> o.regular /\ RegularTok(o, d, tok, text),
   framed |-> o.framed /\ FramedTok(o, tok, text),
   outer |-> o.outer /\ OuterTok(o, d, tok, text),
   owed |-> o.owed \/ (o.wf = "closed" /\ o.seps = 0),
   emitted |-> o.emitted,
   gap |-> o.gap,
   cfg |-> o.cfg,
   cfgOk |-> o.cfgOk,
   words |-> o.words,
   listed |-> o.listed,
   cfgSink |-> o.cfgSink,
   live |-> IF tok \in {"TOK_DATA", "TOK_HDATE"} THEN o.live + 1 ELSE o.live]

\* the value of "_tvalide" in a root object, -1 when it has none
TvalideOf(items) ==
  IF \E i \in DOMAIN items : items[i].key = "_tvalide"
  THEN items[CHOOSE i \in DOMAIN items : items[i].key = "_tvalide"].v
  ELSE -1

\* frame_sep() ran: one more call, and the "_tvalide" it wrote, if any
ObsSep(o, emitted, o2) ==
  [o EXCEPT !.seps = @ + 1,
            !.lastSep = IF emitted THEN TvalideOf(o2.last) ELSE -1,
            !.owed = FALSE,
            !.emitted = IF emitted THEN @ + 1 ELSE @,
            !.gap = IF emitted THEN 0 ELSE @ + 1,
            !.cfgSink = @ \/ filter_mode]

\* every token read so far has been acted upon, or the decoder has stopped
Settled == WantsToken \/ pc # "yybackup"

\* ------------------------------------------------------------------------
\* main(): options, then yyparse() between the two frame delimiters
\* ------------------------------------------------------------------------

Init ==
  /\ dialect \in Dialects
  /\ \E flags \in {{}, {"DICTOUT"}}, s \in 0..MaxSkip :
       tp = [optflags |-> flags, skipframes |-> s, framecount |-> 0,
             fdelim |-> " ", ferr |-> FALSE]
  /\ etiq_en = NoFilter
  /\ filter_mode = FALSE
  /\ out = [cur |-> <<>>, last |-> <<>>, nobjs |-> 0, closed |-> FALSE]
  /\ buf = <<>>
  /\ eof = FALSE
  /\ nread = 0
  /\ yy_start = "INITIAL"
  /\ checksum = 0
  /\ yyss = <<0>>
  /\ yyvs = <<<<>>>>
  /\ yychar = YYEMPTY
  /\ yylval = <<>>
  /\ yyerrstatus = 0
  /\ pc = "yybackup"
  /\ yyresult = -1
  /\ obs = ObsInit

\* ------------------------------------------------------------------------
\* Reader and scanner
\* ------------------------------------------------------------------------

\* the start condition yylex() runs in: the code at the head of the rules
\* section executes BEGIN(FILTER) on every call while filter_mode is set
StartCond == IF filter_mode THEN "FILTER" ELSE yy_start

\* the scanner refills its buffer: the input delivers one more chunk
Read ==
  /\ WantsToken /\ ~ eof /\ NeedInput(dialect, StartCond, buf)
  /\ nread < MaxChunks
  /\ \E c \in Chunks(dialect) : buf' = buf \o c
  /\ nread' = nread + 1
  /\ UNCHANGED <<dialect, filter_mode, tp, etiq_en, out, eof, yy_start, checksum, yyss, yyvs,
                 yychar, yylval, yyerrstatus, pc, yyresult, obs>>

\* the scanner refills its buffer: the input is at its end
ReadEOF ==
  /\ WantsToken /\ ~ eof /\ NeedInput(dialect, StartCond, buf)
  /\ eof' = TRUE
  /\ UNCHANGED <<dialect, filter_mode, tp, etiq_en, out, buf, nread, yy_start, checksum, yyss,
                 yyvs, yychar, yylval, yyerrstatus, pc, yyresult, obs>>

\* yychar = yylex(), at the end of the input: <<EOF>>, yyterminate()
YYLexEOF ==
  /\ WantsToken /\ eof /\ buf = <<>>
  /\ yychar' = "$end"
  /\ UNCHANGED <<dialect, filter_mode, tp, etiq_en, out, buf, eof, nread, yy_start, checksum,
                 yyss, yyvs, yylval, yyerrstatus, pc, yyresult, obs>>

\* the parser takes the token r the scanner returned
Scanned(r) ==
  /\ yychar' = r.tok
  /\ yylval' = IF yytranslate(dialect, r.tok) \in {"ET_H", "ET_N", "ET_I"}
               THEN [tok |-> r.tok, label |-> r.lval]
               ELSE r.lval
  /\ buf' = SubSeq(buf, Len(r.text) + 1, Len(buf))
  /\ yy_start' = r.sc
  /\ checksum' = r.checksum
  /\ obs' = ObsToken(obs, dialect, r.tok, r.text)

\* yychar = yylex(): one rule of the scanner matches and runs its action
YYLex ==
  /\ WantsToken /\ buf # <<>>
  /\ eof \/ ~ NeedInput(dialect, StartCond, buf)
  /\ LexRules(dialect)[BestRule(dialect, StartCond, buf)].act # "SKIP"
  /\ Scanned(yylex(dialect, StartCond, checksum, buf))
  /\ UNCHANGED <<dialect, filter_mode, tp, etiq_en, out, eof, nread, yyss, yyvs, yyerrstatus,
                 pc, yyresult>>

\* yylex() in the filter configuration: white space is matched and ignored,
\* the scanner goes on with the next rule without returning
YYLexSkip ==
  /\ WantsToken /\ buf # <<>>
  /\ eof \/ ~ NeedInput(dialect, StartCond, buf)
  /\ LexRules(dialect)[BestRule(dialect, StartCond, buf)].act = "SKIP"
  /\ buf' = SubSeq(buf, MatchLen(LexRules(dialect)[BestRule(dialect, StartCond, buf)], buf) + 1,
                   Len(buf))
  /\ yy_start' = StartCond
  /\ UNCHANGED <<dialect, filter_mode, tp, etiq_en, out, eof, nread, checksum, yyss, yyvs,
                 yychar, yylval, yyerrstatus, pc, yyresult, obs>>

\* ------------------------------------------------------------------------
\* Parser (bison skeleton): yybackup, yydefault, yyreduce, yyerrlab, yyerrlab1
\* ------------------------------------------------------------------------

Sym == yytranslate(dialect, yychar)

\* the rule yyreduce runs next, -1 when none
CurRule ==
  IF pc # "yybackup" \/ Top = YYFINAL THEN -1
  ELSE IF PactDefault(dialect, Top) THEN States(dialect)[Top + 1].defact
  ELSE IF yychar = YYEMPTY \/ ShiftTo(dialect, Top, Sym) >= 0 THEN -1
  ELSE ReduceBy(dialect, Top, Sym)

CurAct == IF CurRule < 0 THEN "" ELSE Rules(dialect)[CurRule + 1].act

\* $k of the rule being reduced
Val(k) == yyvs[Len(yyvs) - Rules(dialect)[CurRule + 1].len + k]

\* YYPOPSTACK(yylen), then the goto on the left-hand side, pushing $$
Reduced(val) ==
  LET r == Rules(dialect)[CurRule + 1]
      n == Len(yyss) - r.len
  IN  /\ yyss' = Append(SubSeq(yyss, 1, n), GotoOf(dialect, yyss[n], r.lhs))
      /\ yyvs' = Append(SubSeq(yyvs, 1, n), val)

\* a free_field() that releases the horodate and leaves the payload alone
free_fieldHorodateOnly(field) == IF field.horodate # NULL THEN 1 ELSE 0

\* a free_field() that releases nothing
free_fieldNothing(field) == 0

\* free_field(): the buffers it hands to free(): the horodate, and the payload
\* of a field of string type
free_field(field) ==
  (IF field.horodate # NULL THEN 1 ELSE 0)
  + (IF field.etiq.type \in {"T_STRING", "T_PROFILE"} /\ field.data.v # NULL THEN 1 ELSE 0)

\* yystos: the symbol a state is entered on
yystos ==
  [d \in Dialects |->
     [s \in 0..(Len(States(d)) - 1) |->
        LET in == UNION {States(d)[t].shift \cup States(d)[t].goto : t \in DOMAIN States(d)}
        IN  IF \E p \in in : p[2] = s THEN (CHOOSE p \in in : p[2] = s)[1] ELSE "$end"]]

\* yydestruct(): the buffers the %destructor of the symbol releases: free($$)
\* for <text>, free_field(&$$) for <field>, nothing for the other symbols
yydestruct(kind, value) ==
  CASE kind \in {"TOK_DATA", "TOK_HDATE"} -> 1
    [] kind \in {"field", "field_horodate", "field_nodate", "field_ignored"} ->
         free_field(value)
    [] OTHER -> 0

RECURSIVE yypopstack(_, _, _, _)
\* the buffers released when the stack is popped down to its first n entries,
\* each symbol through its destructor
yypopstack(d, ss, vs, n) ==
  IF Len(ss) <= n THEN 0
  ELSE yydestruct(yystos[d][ss[Len(ss)]], vs[Len(ss)])
       + yypopstack(d, SubSeq(ss, 1, Len(ss) - 1), vs, n)

\* yyreturn: the lookahead, then every symbol left on the stack, is destroyed
yyreturn ==
  (IF yychar = YYEMPTY THEN 0 ELSE yydestruct(Sym, yylval))
  + yypopstack(dialect, yyss, yyvs, 1)

\* yybackup: shift the lookahead; yybackup decides with the lookahead unless
\* the state has a default only
Shift ==
  /\ pc = "yybackup" /\ Top # YYFINAL
  /\ ~ PactDefault(dialect, Top) /\ yychar # YYEMPTY
  /\ ShiftTo(dialect, Top, Sym) >= 0
  /\ yyss' = Append(yyss, ShiftTo(dialect, Top, Sym))
  /\ yyvs' = Append(yyvs, yylval)
  /\ yychar' = YYEMPTY
  /\ yyerrstatus' = IF yyerrstatus > 0 THEN yyerrstatus - 1 ELSE 0
  /\ UNCHANGED <<dialect, filter_mode, tp, etiq_en, out, buf, eof, nread, yy_start, checksum,
                 yylval, pc, yyresult, obs>>

\* a rule without action: $$ = $1
ReducePlain ==
  /\ CurAct = "none"
  /\ Reduced(Val(1))
  /\ UNCHANGED <<dialect, filter_mode, tp, etiq_en, out, buf, eof, nread, yy_start, checksum,
                 yychar, yylval, yyerrstatus, pc, yyresult, obs>>

\* etiquette_*: $$ = the entry of the label table, .label = $1
ReduceEtiquette ==
  /\ CurAct = "etiquette"
  /\ Reduced([tok |-> Val(1).tok, label |-> Val(1).label,
              unit |-> Etiq(dialect)[Val(1).tok].unit,
              type |-> Etiq(dialect)[Val(1).tok].type])
  /\ UNCHANGED <<dialect, filter_mode, tp, etiq_en, out, buf, eof, nread, yy_start, checksum,
                 yychar, yylval, yyerrstatus, pc, yyresult, obs>>

\* field rules that hand the payload of a label without horodate to
\* make_field() as its horodate too
FieldArgsDated ==
  CASE CurAct = "field_h" -> [horodate |-> Val(3), data |-> NULL]
    [] CurAct = "field_hd" -> [horodate |-> Val(3), data |-> Val(5)]
    [] CurAct = "field_d" -> [horodate |-> Val(3), data |-> Val(3)]
    [] OTHER -> [horodate |-> NULL, data |-> NULL]

\* horodate and payload arguments of the make_field() call of the rule
FieldArgs ==
  CASE CurAct = "field_h" -> [horodate |-> Val(3), data |-> NULL]
    [] CurAct = "field_hd" -> [horodate |-> Val(3), data |-> Val(5)]
    [] CurAct = "field_d" -> [horodate |-> NULL, data |-> Val(3)]
    [] OTHER -> [horodate |-> NULL, data |-> NULL]

\* field*: make_field(&$$, &$1, ...)
ReduceField ==
  /\ CurAct \in {"field_h", "field_hd", "field_d", "field_ign1", "field_ign2"}
  /\ ~ (FieldArgs.data = NULL /\ ReadsPayload(Val(1)))
  /\ Reduced(make_field(Val(1), FieldArgs.horodate, FieldArgs.data))
  \* free(data) at the end of make_field(); free($3), free($4) of field_ignored
  /\ obs' = [obs EXCEPT !.live = @ - (IF ReadsPayload(Val(1)) THEN 1 ELSE 0)
                                    - (CASE CurAct = "field_ign1" -> 1
                                         [] CurAct = "field_ign2" -> 2
                                         [] OTHER -> 0)]
  /\ UNCHANGED <<dialect, filter_mode, tp, etiq_en, out, buf, eof, nread, yy_start, checksum,
                 yychar, yylval, yyerrstatus, pc, yyresult>>

\* field_horodate without payload for a numeric label: make_field() hands the
\* null pointer to strtol() and dereferences it. Undefined: the process dies,
\* or it goes on with whatever number came out
ReduceFieldNull ==
  /\ CurAct \in {"field_h", "field_hd", "field_d", "field_ign1", "field_ign2"}
  /\ FieldArgs.data = NULL /\ ReadsPayload(Val(1))
  /\ \/ /\ pc' = "crashed"
        /\ UNCHANGED <<yyss, yyvs>>
     \/ /\ \E v \in {0, 1} :
             Reduced([etiq |-> Val(1), horodate |-> FieldArgs.horodate,
                      data |-> [kind |-> "i", v |-> v]])
        /\ pc' = pc
  /\ UNCHANGED <<dialect, filter_mode, tp, etiq_en, out, buf, eof, nread, yy_start, checksum,
                 yychar, yylval, yyerrstatus, yyresult, obs>>

\* dataset: FIELD_START field FIELD_OK  { print_field(&$2); free_field(&$2); }
ReduceDatasetOK ==
  /\ CurAct = "dataset_ok"
  /\ LET p == print_field(tp, etiq_en, out, Val(2))
     IN  tp' = p.tp /\ out' = p.out
  /\ obs' = [obs EXCEPT !.printed = TRUE, !.cfgSink = @ \/ filter_mode,
                        !.live = @ - free_field(Val(2))]
  /\ Reduced(<<>>)
  /\ UNCHANGED <<dialect, filter_mode, etiq_en, buf, eof, nread, yy_start, checksum,
                 yychar, yylval, yyerrstatus, pc, yyresult>>

\* a FIELD_KO rule that hands the field to the sink like the FIELD_OK rule
ReduceDatasetKOPrinting ==
  /\ CurAct = "dataset_ko"
  /\ LET p == print_field(frame_err(tp), etiq_en, out, Val(2))
     IN  tp' = p.tp /\ out' = p.out
  /\ obs' = [obs EXCEPT !.printed = TRUE]
  /\ Reduced(<<>>)
  /\ UNCHANGED <<dialect, filter_mode, etiq_en, buf, eof, nread, yy_start, checksum,
                 yychar, yylval, yyerrstatus, pc, yyresult>>

\* dataset: FIELD_START field FIELD_KO  { frame_err(); free_field(&$2); }
ReduceDatasetKO ==
  /\ CurAct = "dataset_ko"
  /\ tp' = frame_err(tp)
  /\ obs' = [obs EXCEPT !.live = @ - free_field(Val(2))]
  /\ Reduced(<<>>)
  /\ UNCHANGED <<dialect, filter_mode, etiq_en, out, buf, eof, nread, yy_start, checksum,
                 yychar, yylval, yyerrstatus, pc, yyresult>>

\* an unrecognised-dataset rule that counts as a frame error
ReduceDatasetErrorFlagging ==
  /\ CurAct = "dataset_error"
  /\ yyerrstatus' = 0
  /\ tp' = frame_err(tp)
  /\ obs' = [obs EXCEPT !.unrec = TRUE]
  /\ Reduced(<<>>)
  /\ UNCHANGED <<dialect, filter_mode, etiq_en, out, buf, eof, nread, yy_start, checksum,
                 yychar, yylval, pc, yyresult>>

\* dataset: FIELD_START error FIELD_OK  { /*not a frame error*/ yyerrok; }
ReduceDatasetError ==
  /\ CurAct = "dataset_error"
  /\ yyerrstatus' = 0
  /\ obs' = [obs EXCEPT !.unrec = TRUE]
  /\ Reduced(<<>>)
  /\ UNCHANGED <<dialect, filter_mode, tp, etiq_en, out, buf, eof, nread, yy_start, checksum,
                 yychar, yylval, pc, yyresult>>

\* datasets: error  { frame_err(); }
ReduceDatasetsError ==
  /\ CurAct = "datasets_error"
  /\ tp' = frame_err(tp)
  /\ Reduced(<<>>)
  /\ UNCHANGED <<dialect, filter_mode, etiq_en, out, buf, eof, nread, yy_start, checksum,
                 yychar, yylval, yyerrstatus, pc, yyresult, obs>>

\* frame: TOK_STX datasets TOK_ETX  { frame_sep(); }
ReduceFrame ==
  /\ CurAct = "frame_etx"
  /\ LET f == frame_sep(tp, out)
     IN  tp' = f.tp /\ out' = f.out
  /\ obs' = ObsSep(obs, tp.framecount = 0, out')
  /\ Reduced(<<>>)
  /\ UNCHANGED <<dialect, filter_mode, etiq_en, buf, eof, nread, yy_start, checksum,
                 yychar, yylval, yyerrstatus, pc, yyresult>>

\* frame: TOK_STX datasets TOK_EOT  { frame_err(); frame_sep(); }
ReduceFrameEOT ==
  /\ CurAct = "frame_eot"
  /\ LET f == frame_sep(frame_err(tp), out)
     IN  tp' = f.tp /\ out' = f.out
  /\ obs' = ObsSep(obs, tp.framecount = 0, out')
  /\ Reduced(<<>>)
  /\ UNCHANGED <<dialect, filter_mode, etiq_en, buf, eof, nread, yy_start, checksum,
                 yychar, yylval, yyerrstatus, pc, yyresult>>

\* frame: error TOK_ETX (TOK_EOT in V01PME)  { frame_err(); frame_sep(); yyerrok; }
ReduceFrameError ==
  /\ CurAct = "frame_error"
  /\ LET f == frame_sep(frame_err(tp), out)
     IN  tp' = f.tp /\ out' = f.out
  /\ obs' = ObsSep(obs, tp.framecount = 0, out')
  /\ yyerrstatus' = 0
  /\ Reduced(<<>>)
  /\ UNCHANGED <<dialect, filter_mode, etiq_en, buf, eof, nread, yy_start, checksum,
                 yychar, yylval, pc, yyresult>>

\* an etiquettes rule that records the first label of the file only
EnabledFirst(en, tok) == IF en = <<>> THEN <<tok>> ELSE en

\* etiq_en[tok] = 1
Enabled(en, tok) ==
  IF \E i \in DOMAIN en : en[i] = tok THEN en ELSE Append(en, tok)

\* etiquettes: etiquette | etiquettes etiquette  { etiq_en[$n.tok]=1; }
ReduceEtiquettes ==
  /\ CurAct \in {"etiq_en1", "etiq_en2"}
  /\ etiq_en # NoFilter
  /\ etiq_en' = Enabled(etiq_en, Val(IF CurAct = "etiq_en1" THEN 1 ELSE 2).tok)
  /\ Reduced(<<>>)
  /\ UNCHANGED <<dialect, filter_mode, tp, out, buf, eof, nread, yy_start, checksum,
                 yychar, yylval, yyerrstatus, pc, yyresult, obs>>

\* etiquettes: error  { YYABORT; }
ReduceEtiquettesError ==
  /\ CurAct = "yyabort"
  /\ pc' = "yyreturn"
  /\ yyresult' = 1
  /\ obs' = [obs EXCEPT !.live = @ - yyreturn]
  /\ UNCHANGED <<dialect, filter_mode, tp, etiq_en, out, buf, eof, nread, yy_start, checksum,
                 yyss, yyvs, yychar, yylval, yyerrstatus>>

RECURSIVE ErrDepth(_, _)
\* yyerrlab1: length of the stack once the states that cannot shift the error
\* token are popped (0: the stack ran out)
ErrDepth(d, ss) ==
  IF ss = <<>> THEN 0
  ELSE IF ShiftTo(d, ss[Len(ss)], "error") >= 0 THEN Len(ss)
  ELSE ErrDepth(d, SubSeq(ss, 1, Len(ss) - 1))

\* yybackup/yydefault found no action for the lookahead
SyntaxError ==
  /\ pc = "yybackup" /\ Top # YYFINAL
  /\ IF PactDefault(dialect, Top) THEN States(dialect)[Top + 1].defact < 0
     ELSE /\ yychar # YYEMPTY
          /\ ShiftTo(dialect, Top, Sym) < 0
          /\ ReduceBy(dialect, Top, Sym) < 0

\* yyerrlab with the end of input as lookahead right after an error, or
\* yyerrlab1 with nothing left on the stack: YYABORT
YYAbort ==
  /\ SyntaxError
  /\ \/ yyerrstatus = 3 /\ yychar = "$end"
     \/ ErrDepth(dialect, yyss) = 0
  /\ pc' = "yyreturn"
  /\ yyresult' = 1
  /\ obs' = [obs EXCEPT !.live = @ - yyreturn]
  /\ UNCHANGED <<dialect, filter_mode, tp, etiq_en, out, buf, eof, nread, yy_start, checksum,
                 yyss, yyvs, yychar, yylval, yyerrstatus>>

\* yyerrlab: a lookahead that fails right after an error is discarded;
\* yyerrlab1: pop to a state that shifts the error token, shift it
YYError ==
  /\ SyntaxError
  /\ ~ (yyerrstatus = 3 /\ yychar = "$end")
  /\ ErrDepth(dialect, yyss) > 0
  /\ yychar' = IF yyerrstatus = 3 THEN YYEMPTY ELSE yychar
  /\ yyerrstatus' = 3
  /\ LET n == ErrDepth(dialect, yyss)
     IN  /\ yyss' = Append(SubSeq(yyss, 1, n), ShiftTo(dialect, yyss[n], "error"))
         /\ yyvs' = Append(SubSeq(yyvs, 1, n), <<>>)
         \* yydestruct("Error: discarding", ...), yydestruct("Error: popping", ...)
         /\ obs' = [obs EXCEPT !.live = @ - (IF yyerrstatus = 3 THEN yydestruct(Sym, yylval)
                                             ELSE 0)
                                           - yypopstack(dialect, yyss, yyvs, n)]
  /\ UNCHANGED <<dialect, filter_mode, tp, etiq_en, out, buf, eof, nread, yy_start, checksum,
                 yylval, pc, yyresult>>

\* yysetstate reached YYFINAL: YYACCEPT
YYAccept ==
  /\ pc = "yybackup" /\ Top = YYFINAL
  /\ pc' = "yyreturn"
  /\ yyresult' = 0
  /\ obs' = [obs EXCEPT !.live = @ - yyreturn]
  /\ UNCHANGED <<dialect, filter_mode, tp, etiq_en, out, buf, eof, nread, yy_start, checksum,
                 yyss, yyvs, yychar, yylval, yyerrstatus>>

\* a main() that returns after yyparse() without writing the closing delimiter
FinishOpen ==
  /\ pc = "yyreturn" /\ ~ filter_mode
  /\ pc' = "exit"
  /\ UNCHANGED <<dialect, filter_mode, tp, etiq_en, out, buf, eof, nread, yy_start, checksum,
                 yyss, yyvs, yychar, yylval, yyerrstatus, yyresult, obs>>

\* main() after yyparse(): the closing delimiter, a newline, return 0
Finish ==
  /\ pc = "yyreturn" /\ ~ filter_mode
  /\ pc' = "exit"
  /\ out' = [out EXCEPT !.closed = TRUE]
  /\ UNCHANGED <<dialect, filter_mode, tp, etiq_en, buf, eof, nread, yy_start, checksum,
                 yyss, yyvs, yychar, yylval, yyerrstatus, yyresult, obs>>

Next ==
  \/ Read
  \/ ReadEOF
  \/ YYLexEOF
  \/ YYLex
  \/ Shift
  \/ ReducePlain
  \/ ReduceEtiquette
  \/ ReduceField
  \/ ReduceFieldNull
  \/ ReduceDatasetOK
  \/ ReduceDatasetKO
  \/ ReduceDatasetError
  \/ ReduceDatasetsError
  \/ ReduceFrame
  \/ ReduceFrameEOT
  \/ ReduceFrameError
  \/ YYError
  \/ YYAbort
  \/ YYAccept
  \/ Finish

Spec == Init /\ [][Next]_vars

\* the program is one sequential process that always takes its next step, and
\* the input is finite: the reader ends up reporting the end of the input
SpecLive == Init /\ [][Next]_vars /\ WF_vars(Next)

\* ------------------------------------------------------------------------
\* main() with -e: parse_config() reads the filter configuration with the
\* same scanner and parser, then the stream is decoded
\* ------------------------------------------------------------------------

\* "#ticfilter\n"
Header == <<35, 116, 105, 99, 102, 105, 108, 116, 101, 114, LF>>

\* labels written in the configuration files:
\*   V02 ADSC, DATE   V01 ADCO, BASE   V01PME ADS, DATEPA1
ConfigLabels(d) ==
  CASE d = "V02" -> <<<<65, 68, 83, 67>>, <<68, 65, 84, 69>>>>
    [] d = "V01" -> <<<<65, 68, 67, 79>>, <<66, 65, 83, 69>>>>
    [] d = "V01PME" -> <<<<65, 68, 83>>, <<68, 65, 84, 69, 80, 65, 49>>>>

\* the configuration files: the header and one label, the header and two
\* labels, a label without the header, the header and a word that is no label,
\* and a file that holds an empty frame STX ETX
ConfigFiles(d) ==
  {Header \o ConfigLabels(d)[i] \o <<LF>> : i \in 1..2}
  \cup {Header \o ConfigLabels(d)[1] \o <<SP>> \o ConfigLabels(d)[2] \o <<LF>>}
  \cup {ConfigLabels(d)[1] \o <<LF>>}
  \cup {Header \o <<120, LF>>, <<STX, ETX>>}

\* the words of s: its maximal runs of bytes other than space, tab, newline
WordsOf(s) ==
  {SubSeq(s, i, j) : <<i, j>> \in
     {p \in (1..Len(s)) \X (1..Len(s)) :
        /\ p[1] <= p[2]
        /\ \A k \in p[1]..p[2] : s[k] \notin {SP, HT, LF}
        /\ p[1] = 1 \/ s[p[1] - 1] \in {SP, HT, LF}
        /\ p[2] = Len(s) \/ s[p[2] + 1] \in {SP, HT, LF}}}

\* the words of the configuration file after its "#ticfilter" line
ListedWords(cfg) ==
  IF IsPrefix(Header, cfg) THEN WordsOf(SubSeq(cfg, Len(Header) + 1, Len(cfg))) ELSE {}

\* the tag of a word: the token of the label rule that matches the whole word
TagsOf(d, word) ==
  {IF LexRules(d)[r].tok = "ET_PAX_x" THEN PaxTok(word) ELSE LexRules(d)[r].tok :
     r \in {q \in DOMAIN LexRules(d) :
     /\ LexRules(d)[q].act = "LABEL"
     /\ MatchLen(LexRules(d)[q], word) = Len(word)}}

\* T: the tags the configuration file enables
ListedTags(d, cfg) == UNION {TagsOf(d, w) : w \in ListedWords(cfg)}

\* the file begins with the line #ticfilter, followed solely by
\* whitespace-separated labels of the dialect
WellFormedConfig(d, cfg) ==
  /\ IsPrefix(Header, cfg)
  /\ \A w \in ListedWords(cfg) : TagsOf(d, w) # {}

\* main() up to the yyparse() call of parse_config(): etiq_en is allocated and
\* zeroed, filter_mode is set, yyin is the configuration file
InitFilter ==
  /\ dialect \in Dialects
  /\ tp = [optflags |-> {"DICTOUT"}, skipframes |-> 0, framecount |-> 0,
           fdelim |-> " ", ferr |-> FALSE]
  /\ etiq_en = <<>>
  /\ filter_mode = TRUE
  /\ out = [cur |-> <<>>, last |-> <<>>, nobjs |-> 0, closed |-> FALSE]
  /\ buf \in ConfigFiles(dialect)
  /\ eof = TRUE
  /\ nread = 0
  /\ yy_start = "INITIAL"
  /\ checksum = 0
  /\ yyss = <<0>>
  /\ yyvs = <<<<>>>>
  /\ yychar = YYEMPTY
  /\ yylval = <<>>
  /\ yyerrstatus = 0
  /\ pc = "yybackup"
  /\ yyresult = -1
  /\ obs = [ObsInit EXCEPT !.cfg = buf,
                           !.cfgOk = WellFormedConfig(dialect, buf),
                           !.words = ListedWords(buf),
                           !.listed = ListedTags(dialect, buf)]

\* parse_config(): yyparse() returned 0. The file is closed, the scanner is
\* reset, yyin is stdin, filter_mode is cleared; main() writes the opening
\* delimiter and calls yyparse() on the stream
ParseConfigDone ==
  /\ pc = "yyreturn" /\ filter_mode /\ yyresult = 0
  /\ filter_mode' = FALSE
  /\ buf' = <<>>
  /\ eof' = FALSE
  /\ nread' = 0
  /\ yy_start' = "INITIAL"
  /\ yyss' = <<0>>
  /\ yyvs' = <<<<>>>>
  /\ yychar' = YYEMPTY
  /\ yylval' = <<>>
  /\ yyerrstatus' = 0
  /\ pc' = "yybackup"
  /\ yyresult' = -1
  /\ obs' = [ObsInit EXCEPT !.cfg = obs.cfg, !.cfgOk = obs.cfgOk,
                            !.words = obs.words, !.listed = obs.listed,
                            !.cfgSink = obs.cfgSink, !.live = obs.live]
  /\ UNCHANGED <<dialect, tp, etiq_en, out, checksum>>

\* parse_config(): yyparse() returned non-zero: "filter config error!", exit(-1)
ParseConfigError ==
  /\ pc = "yyreturn" /\ filter_mode /\ yyresult # 0
  /\ pc' = "exit_error"
  /\ UNCHANGED <<dialect, filter_mode, tp, etiq_en, out, buf, eof, nread, yy_start, checksum,
                 yyss, yyvs, yychar, yylval, yyerrstatus, yyresult, obs>>

\* main() without -e, the input has delivered a whole first frame
InitFrames ==
  /\ dialect \in Dialects
  /\ \/ /\ \E flags \in {{}, {"DICTOUT"}}, s \in 0..MaxSkip :
             tp = [optflags |-> flags, skipframes |-> s, framecount |-> 0,
                   fdelim |-> " ", ferr |-> FALSE]
        /\ etiq_en = NoFilter
     \* -d -z
     \/ /\ tp = [optflags |-> {"DICTOUT", "MASKZEROES"}, skipframes |-> 0,
                 framecount |-> 0, fdelim |-> " ", ferr |-> FALSE]
        /\ etiq_en = NoFilter
     \* -d -e, the configuration file listed ADSC (V02), ADCO (V01), ADS (V01PME)
     \/ /\ tp = [optflags |-> {"DICTOUT"}, skipframes |-> 0,
                 framecount |-> 0, fdelim |-> " ", ferr |-> FALSE]
        /\ etiq_en = CASE dialect = "V02" -> <<"ET_ADSC">>
                        [] dialect = "V01" -> <<"ET_ADCO">>
                        [] dialect = "V01PME" -> <<"ET_ADS">>
  /\ filter_mode = FALSE
  /\ out = [cur |-> <<>>, last |-> <<>>, nobjs |-> 0, closed |-> FALSE]
  /\ buf \in FirstFrames(dialect)
  /\ eof = FALSE
  /\ nread = 1
  /\ yy_start = "INITIAL"
  /\ checksum = 0
  /\ yyss = <<0>>
  /\ yyvs = <<<<>>>>
  /\ yychar = YYEMPTY
  /\ yylval = <<>>
  /\ yyerrstatus = 0
  /\ pc = "yybackup"
  /\ yyresult = -1
  /\ obs = ObsInit

SpecFrames == InitFrames /\ [][Next]_vars

NextFilter ==
  \/ Next
  \/ YYLexSkip
  \/ ReduceEtiquettes
  \/ ReduceEtiquettesError
  \/ ParseConfigDone
  \/ ParseConfigError

SpecFilter == InitFilter /\ [][NextFilter]_vars

\* ------------------------------------------------------------------------
\* The scanner alone, fed one dataset: every label of the dialect, a few
\* payloads, every checksum byte of CHKSUM
\* ------------------------------------------------------------------------

RECURSIVE PatWords(_)
\* the words a label pattern matches
PatWords(pat) ==
  IF pat = <<>> THEN {<<>>}
  ELSE {<<c>> \o w : c \in pat[1], w \in PatWords(Tail(pat))}

\* every label the scanner of the dialect knows
LabelWords(d) == UNION {PatWords(Labels(d)[i].pat) : i \in DOMAIN Labels(d)}

\* payloads fed to the scanner alone: "1", "12W", and for V01PME a payload with
\* a space and a horodate
ScanData(d) ==
  IF d = "V01" THEN {<<49>>, <<49, 50, 87>>}
  ELSE {<<49>>, <<49, 50, 87>>, <<49, SP, 50>>,
        <<49, 53, 47, 48, 55, 47, 50, 49, 32, 49, 52, 58, 51, 48, 58, 49, 50>>}

InitScan ==
  /\ dialect \in {"V01", "V01PME"}
  /\ tp = [optflags |-> {}, skipframes |-> 0, framecount |-> 0,
           fdelim |-> " ", ferr |-> FALSE]
  /\ etiq_en = NoFilter
  /\ filter_mode = FALSE
  /\ out = [cur |-> <<>>, last |-> <<>>, nobjs |-> 0, closed |-> FALSE]
  /\ \E l \in LabelWords(dialect), x \in ScanData(dialect), c \in CHKSUM :
       /\ buf = <<LF>> \o l \o <<SP>> \o x \o <<SP, c, CR>>
       /\ obs = [ObsInit EXCEPT !.wire = buf]
  /\ eof = TRUE
  /\ nread = 1
  /\ yy_start = "INITIAL"
  /\ checksum = 0
  /\ yyss = <<0>>
  /\ yyvs = <<<<>>>>
  /\ yychar = YYEMPTY
  /\ yylval = <<>>
  /\ yyerrstatus = 0
  /\ pc = "scan"
  /\ yyresult = -1

\* one call of yylex() outside yyparse(): the caller drops the token and asks
\* for the next one
Scan ==
  /\ pc = "scan" /\ buf # <<>>
  /\ LET r == yylex(dialect, yy_start, checksum, buf)
     IN  /\ yychar' = r.tok
         /\ buf' = SubSeq(buf, Len(r.text) + 1, Len(buf))
         /\ yy_start' = r.sc
         /\ checksum' = r.checksum
  /\ UNCHANGED <<dialect, filter_mode, tp, etiq_en, out, eof, nread, yyss, yyvs, yylval,
                 yyerrstatus, pc, yyresult, obs>>

SpecScan == InitScan /\ [][Scan]_vars

\* ------------------------------------------------------------------------
\* One dataset from the field rule to the sink, under the output options
\* ------------------------------------------------------------------------

\* the semantic values a field rule may hold when it is reduced, with the
\* dialect and the options of the run. kind names what the dataset exercises
\* and parts keeps what the payload was made of:
\*   "stge"   STGE and eight hex digits; parts = <<the 32-bit value>>, as a
\*            signed number
\*   "pjour"  the day profile, blocks HHMMSSSS or NONUTILE separated by one or
\*            two spaces; parts = the blocks, (HH * 100 + MM) * 65536 + SSSS
\*            each, -1 for NONUTILE. Its type is the T_PROFILE print_field()
\*            and make_field() decode, which no etiquette of ticv02.y carries
\*   "date"   a label with horodate; parts = <<S, AA, MM, JJ, hh, mm, ss>>
\*            (V02, S the season byte) or <<0, AA, MM, JJ, hh, mm, ss>> (V01PME)
\*   "suffix" V01PME: digits and a suffix; parts = <<the number>>
\*   "plain"  numeric and string payloads, zero or not; parts = <<>>
SinkInputs ==
  LET Dec2(n) == <<48 + (n \div 10), 48 + (n % 10)>>
      HexDigit(n) == IF n < 10 THEN 48 + n ELSE 55 + n
      Hex(n, w) == [i \in 1..w |-> HexDigit((n \div (16 ^ (w - i))) % 16)]
      E(d, tok, label) == [tok |-> tok, label |-> label,
                           unit |-> Etiq(d)[tok].unit, type |-> Etiq(d)[tok].type]
      In(kind, d, flags, etiq, horodate, data, parts) ==
        [kind |-> kind, dialect |-> d, optflags |-> flags, etiq |-> etiq,
         horodate |-> horodate, data |-> data, parts |-> parts]
      \* STGE
      Bit(b) == IF b = 31 THEN -2147483647 - 1 ELSE 2 ^ b
      StgeValues == {0, -1} \cup {Bit(b) : b \in 0..31} \cup {-1 - Bit(b) : b \in 0..31}
      Stge == {In("stge", "V02", f, E("V02", "ET_STGE", <<83, 84, 71, 69>>), NULL,
                  Hex(v, 8), <<v>>) :
                 v \in StgeValues,
                 f \in {{"PARSESTGE"}, {"PARSESTGE", "MASKZEROES"}, {"MASKZEROES"}}}
      \* PJOURF+1
      Real == <<32769, 630 * 65536 + 16386, 2200 * 65536 + 65535, 2359 * 65536 + 0>>
      Block(b) == IF b = -1 THEN <<78, 79, 78, 85, 84, 73, 76, 69>>
                  ELSE Dec2(b \div 6553600) \o Dec2((b \div 65536) % 100)
                       \o Hex(b % 65536, 4)
      Blocks(n, p, k, tail) ==
        [i \in 1..n |-> IF i <= p \/ (tail = 1 /\ i > p + 1)
                        THEN Real[((i + k) % 4) + 1] ELSE -1]
      Join(bs, w) ==
        [i \in 1..(Len(bs) * (8 + w) - (IF bs = <<>> THEN 0 ELSE w)) |->
           IF (i - 1) % (8 + w) >= 8 THEN SP
           ELSE Block(bs[((i - 1) \div (8 + w)) + 1])[((i - 1) % (8 + w)) + 1]]
      Pjour == {In("pjour", "V02", f,
                   [tok |-> "ET_PJOURFP1", label |-> <<80, 74, 79, 85, 82, 70, 43, 49>>,
                    unit |-> "U_SANS", type |-> "T_PROFILE"],
                   NULL, Join(Blocks(n, p, k, tail), w), Blocks(n, p, k, tail)) :
                  n \in 0..MaxBlocks, p \in 0..MaxBlocks, k \in 0..1, tail \in 0..1,
                  w \in 1..2, f \in {{"FORMATPJ"}, {"FORMATPJ", "MASKZEROES"}, {}}}
      \* horodates
      Dates == {<<21, 7, 15, 14, 30, 12>>, <<99, 12, 31, 23, 59, 59>>, <<0, 1, 2, 3, 4, 5>>}
      DateV02 == {In("date", "V02", f, e.etiq,
                     <<s>> \o Dec2(t[1]) \o Dec2(t[2]) \o Dec2(t[3]) \o Dec2(t[4])
                     \o Dec2(t[5]) \o Dec2(t[6]),
                     e.data, <<s>> \o t) :
                    s \in {69, 101, 72, 104, SP}, t \in Dates,
                    f \in {{"LONGDATE"}, {"LONGDATE", "MASKZEROES"}, {}},
                    e \in {[etiq |-> E("V02", "ET_DATE", <<68, 65, 84, 69>>), data |-> NULL],
                           [etiq |-> E("V02", "ET_UMOY1", <<85, 77, 79, 89, 49>>),
                            data |-> <<50, 51, 48>>],
                           [etiq |-> E("V02", "ET_UMOY1", <<85, 77, 79, 89, 49>>),
                            data |-> <<48>>]}}
      DatePME == {In("date", "V01PME", f,
                     E("V01PME", "ET_DATEPAX", <<68, 65, 84, 69, 80, 65, 51>>),
                     Dec2(t[3]) \o <<47>> \o Dec2(t[2]) \o <<47>> \o Dec2(t[1]) \o <<SP>>
                     \o Dec2(t[4]) \o <<58>> \o Dec2(t[5]) \o <<58>> \o Dec2(t[6]),
                     NULL, <<0>> \o t) :
                    t \in Dates, f \in {{"LONGDATE"}, {}}}
      \* V01PME payloads with a suffix
      Suffix == {In("suffix", "V01PME", f, e, NULL, Dec2(n) \o x, <<n>>) :
                   n \in {0, 7, 12},
                   x \in {<<>>, <<107, 86, 65>>, <<107, 87>>, <<65>>, <<87>>,
                          <<107, 86, 65, 114>>, <<107, 87, 104>>, <<32, 87>>, <<119>>},
                   f \in {{}, {"MASKZEROES"}},
                   e \in {E("V01PME", "ET_PS", <<80, 83>>),
                          E("V01PME", "ET_PMAX_s", <<80, 77, 65, 88, 95, 115>>),
                          E("V01PME", "ET_PAX_s", <<80, 65, 49, 95, 115>>),
                          E("V01PME", "ET_ADS", <<65, 68, 83>>)}}
      \* zero and non-zero payloads of every type
      Plain == {In("plain", r.d, f, r.etiq, NULL, x, <<>>) :
                  r \in {[d |-> "V02", etiq |-> E("V02", "ET_EAST", <<69, 65, 83, 84>>)],
                         [d |-> "V02", etiq |-> E("V02", "ET_RELAIS", <<82, 69, 76, 65, 73, 83>>)],
                         [d |-> "V02", etiq |-> E("V02", "ET_NGTF", <<78, 71, 84, 70>>)],
                         [d |-> "V02", etiq |-> E("V02", "ET_STGE", <<83, 84, 71, 69>>)],
                         [d |-> "V01", etiq |-> E("V01", "ET_PAPP", <<80, 65, 80, 80>>)],
                         [d |-> "V01", etiq |-> E("V01", "ET_ADCO", <<65, 68, 67, 79>>)],
                         [d |-> "V01", etiq |-> E("V01", "ET_PPOT", <<80, 80, 79, 84>>)],
                         [d |-> "V01PME", etiq |-> E("V01PME", "ET_IGNORED", <<>>)]},
                  x \in {<<48>>, <<48, 48, 48>>, <<45, 48>>, <<48, 48, 49>>, <<49, 48>>,
                         <<120>>, <<48, 65>>, <<49, 87>>},
                  f \in {{}, {"MASKZEROES"}, {"MASKZEROES", "DICTOUT"}}}
  IN  Stge \cup Pjour \cup DateV02 \cup DatePME \cup Suffix \cup Plain

\* the parser is about to reduce a field rule: the etiquette, the horodate and
\* the payload are on its stack (kept in yylval), nothing has been written
InitSink ==
  /\ \E in \in SinkInputs :
       /\ dialect = in.dialect
       /\ tp = [optflags |-> in.optflags, skipframes |-> 0, framecount |-> 0,
                fdelim |-> " ", ferr |-> FALSE]
       /\ yylval = in
  /\ etiq_en = NoFilter
  /\ filter_mode = FALSE
  /\ out = [cur |-> <<>>, last |-> <<>>, nobjs |-> 0, closed |-> FALSE]
  /\ buf = <<>>
  /\ eof = FALSE
  /\ nread = 0
  /\ yy_start = "INITIAL"
  /\ checksum = 0
  /\ yyss = <<0>>
  /\ yyvs = <<<<>>>>
  /\ yychar = YYEMPTY
  /\ yyerrstatus = 0
  /\ pc = "field"
  /\ yyresult = -1
  /\ obs = ObsInit

\* field: make_field(&$$, &$1, horodate, data)
MakeField ==
  /\ pc = "field"
  /\ yyvs' = <<make_field(yylval.etiq, yylval.horodate, yylval.data)>>
  /\ pc' = "dataset"
  /\ UNCHANGED <<dialect, filter_mode, tp, etiq_en, out, buf, eof, nread, yy_start, checksum,
                 yyss, yychar, yylval, yyerrstatus, yyresult, obs>>

\* dataset: FIELD_START field FIELD_OK { print_field(&$2); }, all of
\* print_field(): the filters, then the payload as the options have it written
\* (obj: the object of print_stge_data() or print_pjour_data(), "plain" when
\* the payload is written as a string or a number), then the horodate
PrintField ==
  /\ pc = "dataset"
  /\ LET f == yyvs[1]
         p == print_field(tp, etiq_en, out, f)
         obj == IF f.etiq.unit = "U_SANS" /\ f.etiq.type = "T_PROFILE"
                   /\ "FORMATPJ" \in tp.optflags
                THEN [kind |-> "pjour", v |-> print_pjour_data(f.data.v)]
                ELSE IF f.etiq.unit = "U_SANS" /\ f.etiq.type = "T_HEX"
                        /\ "PARSESTGE" \in tp.optflags
                THEN [kind |-> "stge", v |-> print_stge_data(f.data.v)]
                ELSE [kind |-> "plain", v |-> <<>>]
         date == IF f.horodate = NULL THEN NULL
                 ELSE print_horodate(dialect, tp.optflags, f.horodate)
     IN  /\ tp' = p.tp
         /\ out' = IF p.out = out THEN out
                   ELSE [out EXCEPT !.cur = <<[item |-> p.out.cur[1], obj |-> obj,
                                               date |-> date]>>]
  /\ pc' = "done"
  /\ UNCHANGED <<dialect, filter_mode, etiq_en, buf, eof, nread, yy_start, checksum,
                 yyss, yyvs, yychar, yylval, yyerrstatus, yyresult, obs>>


SpecSink == InitSink /\ [][MakeField \/ PrintField]_vars

\* ------------------------------------------------------------------------
\* The print-to-buffer build: tic2json_main(yyin, optflags, buf, size, cb)
\* ------------------------------------------------------------------------
\* out holds the caller's buffer: ticbufsize and ticbufavail, and what the
\* print calls did to it: last (the function that ran last), at and wrote
\* (offset of the last vsnprintf() and the bytes it stored, the final NUL
\* included), trunc (a print of the frame in the buffer did not fit) and, for
\* the function that ran last, hi (the largest offset a store of its print
\* calls reached), lo (the least ticbufavail one of them left), cbsize and
\* cbtrunc (the size it handed to the callback, -1 when it did not call it,
\* and trunc at that time)

\* a ticprintf() that takes the formatted length off ticbufavail whether the
\* text fitted or not
ticprintfUnchecked(b, ret) ==
  LET off == b.ticbufsize - b.ticbufavail
      n == IF ret >= b.ticbufavail THEN b.ticbufavail ELSE ret + 1
      avail == b.ticbufavail - ret
  IN  [b EXCEPT !.ticbufavail = avail, !.at = off, !.wrote = n,
                !.hi = IF off + n > @ THEN off + n ELSE @,
                !.lo = IF avail < @ THEN avail ELSE @,
                !.trunc = @ \/ ret >= b.ticbufavail]

\* ticprintf(): vsnprintf() at ticbuf + (ticbufsize - ticbufavail) with room
\* for ticbufavail bytes; ret is the length of the formatted text. ret is
\* compared as a size_t, a negative one is larger than any ticbufavail
ticprintf(b, ret) ==
  LET off == b.ticbufsize - b.ticbufavail
      fits == ret >= 0 /\ ret < b.ticbufavail
      n == IF ret < 0 THEN 0 ELSE IF fits THEN ret + 1 ELSE b.ticbufavail
      avail == IF fits THEN b.ticbufavail - ret ELSE b.ticbufavail
  IN  [b EXCEPT !.ticbufavail = avail, !.at = off, !.wrote = n,
                !.hi = IF off + n > @ THEN off + n ELSE @,
                !.lo = IF avail < @ THEN avail ELSE @,
                !.trunc = @ \/ ~ fits]

\* tic2json_main() has been called with a buffer of size bytes and the option
\* flags; the build holds one dialect
InitBuf ==
  /\ dialect \in Dialects
  /\ \E flags \in {{}, {"DICTOUT"}, {"DICTOUT", "MASKZEROES"}} :
       tp = [optflags |-> flags, skipframes |-> 0, framecount |-> 0,
             fdelim |-> " ", ferr |-> FALSE]
  /\ \E size \in 1..MaxBuf :
       out = [cur |-> <<>>, last |-> "main", nobjs |-> 0, closed |-> FALSE,
              ticbufsize |-> size, ticbufavail |-> size, at |-> 0, wrote |-> 0,
              hi |-> 0, lo |-> size, trunc |-> FALSE, cbsize |-> -1,
              cbtrunc |-> FALSE]
  /\ etiq_en = NoFilter
  /\ filter_mode = FALSE
  /\ buf = <<>>
  /\ eof = FALSE
  /\ nread = 0
  /\ yy_start = "INITIAL"
  /\ checksum = 0
  /\ yyss = <<0>>
  /\ yyvs = <<<<>>>>
  /\ yychar = YYEMPTY
  /\ yylval = <<>>
  /\ yyerrstatus = 0
  /\ pc = "main"
  /\ yyresult = -1
  /\ obs = ObsInit

\* tic2json_main() up to yyparse(): ticprintf("%c", tp.framedelims[0])
MainOpen ==
  /\ pc = "main"
  /\ out' = [ticprintf(out, 1) EXCEPT !.last = "open"]
  /\ pc' = "yybackup"
  /\ UNCHANGED <<dialect, filter_mode, tp, etiq_en, buf, eof, nread, yy_start, checksum,
                 yyss, yyvs, yychar, yylval, yyerrstatus, yyresult, obs>>

\* dataset: FIELD_START field FIELD_OK { print_field(&$2); }
\*        | FIELD_START field FIELD_KO { frame_err(); }
\* print_field() is its filters, then its print calls: the head with the
\* label, the payload as "%s" between quotes or as "%ld", the horodate, the
\* tail
DatasetBuf ==
  /\ pc = "yybackup"
  /\ \/ \E in \in {i \in SinkInputs : /\ i.dialect = dialect /\ i.optflags = {}
                                      /\ i.kind \in {"plain", "date", "suffix"}
                                      /\ i.data # NULL} :
          LET f == make_field(in.etiq, in.horodate, in.data)
              p == print_field(tp, etiq_en, [out EXCEPT !.cur = <<>>], f)
              it == p.out.cur[1]
              neg(v) == IF v < 0 THEN 0 - v ELSE v
              ld(v) == (IF v < 0 THEN 1 ELSE 0)
                       + (CHOOSE k \in 1..10 :
                            /\ k = 10 \/ neg(v) \div (10 ^ k) = 0
                            /\ k = 1 \/ neg(v) \div (10 ^ (k - 1)) # 0)
              b == [out EXCEPT !.hi = 0, !.lo = out.ticbufavail, !.cbsize = -1,
                               !.cbtrunc = FALSE]
              head == ticprintf(b, (IF "DICTOUT" \in tp.optflags THEN 16 ELSE 24)
                                   + Len(it.label))
              data == ticprintf(head, IF it.s # NULL THEN 2 + Len(it.s) ELSE ld(it.v))
              date == IF it.horodate = NULL THEN data
                      ELSE ticprintf(data, 16 + Len(it.horodate))
          IN  /\ tp' = p.tp
              /\ out' = IF p.out.cur = <<>> THEN [b EXCEPT !.last = "print_field"]
                        ELSE [ticprintf(date, 3) EXCEPT !.last = "print_field"]
     \/ /\ tp' = frame_err(tp)
        /\ out' = [out EXCEPT !.last = "frame_err", !.hi = 0, !.lo = out.ticbufavail,
                               !.cbsize = -1, !.cbtrunc = FALSE]
  /\ UNCHANGED <<dialect, filter_mode, etiq_en, buf, eof, nread, yy_start, checksum,
                 yyss, yyvs, yychar, yylval, yyerrstatus, pc, yyresult, obs>>

\* frame: TOK_STX datasets TOK_ETX { frame_sep(); }, all of frame_sep(): the
\* validity member, the closing delimiter, the callback with ticbufsize -
\* ticbufavail, the reset of the buffer and the opening delimiter
FrameSepBuf ==
  /\ pc = "yybackup"
  /\ LET b == [out EXCEPT !.hi = 0, !.lo = out.ticbufavail, !.cbsize = -1,
                          !.cbtrunc = FALSE]
         valid == IF "DICTOUT" \in tp.optflags THEN ticprintf(b, 15) ELSE b
         close == ticprintf(valid, 2)
         reset == [close EXCEPT !.cbsize = close.ticbufsize - close.ticbufavail,
                                !.cbtrunc = close.trunc,
                                !.ticbufavail = close.ticbufsize, !.trunc = FALSE]
     IN  IF tp.framecount = 0
         THEN out' = [ticprintf(reset, 1) EXCEPT !.last = "frame_sep"]
         ELSE out' = [b EXCEPT !.last = "frame_sep"]
  /\ tp' = frame_sep(tp, [cur |-> <<>>, last |-> <<>>, nobjs |-> 0]).tp
  /\ UNCHANGED <<dialect, filter_mode, etiq_en, buf, eof, nread, yy_start, checksum,
                 yyss, yyvs, yychar, yylval, yyerrstatus, pc, yyresult, obs>>

\* tic2json_main() after yyparse(): ticprintf("%c\n", tp.framedelims[1])
MainClose ==
  /\ pc = "yybackup"
  /\ out' = [ticprintf([out EXCEPT !.hi = 0, !.lo = out.ticbufavail, !.cbsize = -1,
                                   !.cbtrunc = FALSE], 2) EXCEPT !.last = "end"]
  /\ pc' = "done"
  /\ UNCHANGED <<dialect, filter_mode, tp, etiq_en, buf, eof, nread, yy_start, checksum,
                 yyss, yyvs, yychar, yylval, yyerrstatus, yyresult, obs>>

SpecBuf == InitBuf /\ [][MainOpen \/ DatasetBuf \/ FrameSepBuf \/ MainClose]_vars

\* ------------------------------------------------------------------------
\* Properties
\* ------------------------------------------------------------------------

DictMode == "DICTOUT" \in tp.optflags

\* C1: V02, in a stream of frames made of datasets of legal shape: once a
\* dataset has been read up to its CR, it has been handed to the sink if and
\* only if its checksum byte is ((sum of label, separators, horodate, data)
\* & 0x3F) + 0x20.
C1_EmittedIffChecksum ==
  (dialect = "V02" /\ Settled /\ obs.regular /\ obs.wf = "in"
   /\ WireComplete(dialect, obs.wire))
  => (obs.printed <=> WireCkOk(dialect, obs.wire))

\* C3: print_field is invoked only for a dataset of legal shape whose checksum
\* byte is the right one: whenever it has just been invoked, the bytes read
\* since the last LF are a whole dataset of legal shape with a matching checksum.
C3_PrintOnlyValid ==
  obs.printed => (WireComplete(dialect, obs.wire) /\ WireCkOk(dialect, obs.wire))

C3_Witness ==
  obs.printed /\ WireComplete(dialect, obs.wire) /\ obs.wf = "in"

\* C4: in a stream of frames whose only faults are inside datasets, once the
\* ETX (or EOT) of a frame has been read, frame_sep has run exactly once for it.
C4_OnceForEachFrame ==
  (Settled /\ obs.framed /\ obs.wf = "closed") => obs.seps = 1

\* C5: in dict mode, the root object written for a frame in which the scanner
\* returned FIELD_KO, or which ended with EOT, holds "_tvalide": 0.
C5_KoOrEotInvalid ==
  (Settled /\ DictMode /\ obs.wf = "closed" /\ obs.lastSep # -1 /\ (obs.ko \/ obs.eot))
  => obs.lastSep = 0

\* C6: in dict mode, the root object written for a frame made of datasets of
\* legal shape (at least one), none with FIELD_KO, and closed by ETX, holds
\* "_tvalide": 1, whatever bytes came before the STX of the frame.
C6_AllPassValid ==
  (Settled /\ DictMode /\ obs.outer /\ obs.wf = "closed" /\ obs.lastSep # -1
   /\ obs.hasDs /\ ~ obs.ko /\ ~ obs.eot)
  => obs.lastSep = 1

C8_ResyncAtNextLF ==
  /\ (Settled /\ obs.framed /\ obs.faulty /\ obs.wf = "in" /\ WireComplete(dialect, obs.wire)
     /\ SubSeq(obs.wire, 1, Len(obs.wire) - 2) = KoBody(dialect)
      /\ WireCkOk(dialect, obs.wire))
     => obs.printed
  /\ (Settled /\ obs.framed /\ obs.faulty /\ obs.wf = "closed") => obs.seps >= 1

\* C9: in a stream of regular frames with stray bytes before or between them,
\* a valid dataset of a frame is handed to the sink, and in dict mode a frame
\* without FIELD_KO closed by ETX is written with "_tvalide": 1.
C9_ResyncAtNextSTX ==
  /\ (Settled /\ obs.outer /\ obs.wf = "in" /\ WireComplete(dialect, obs.wire)
     /\ SubSeq(obs.wire, 1, Len(obs.wire) - 2) = KoBody(dialect)
      /\ WireCkOk(dialect, obs.wire))
     => obs.printed
  /\ (Settled /\ DictMode /\ obs.outer /\ obs.wf = "closed" /\ obs.seps = 1
      /\ tp.skipframes = 0 /\ ~ obs.ko /\ ~ obs.eot /\ obs.hasDs)
     => obs.lastSep = 1

\* C10: the decoder leaves yyparse() only once the reader has reported the end
\* of the input and every byte read has been consumed.
C10_RunsUntilEndOfInput ==
  pc # "yybackup" => (eof /\ buf = <<>>)

C12_SinkOrder ==
  /\ [][out'.cur # out.cur =>
          \/ out'.cur = <<>>
          \/ Len(out'.cur) = Len(out.cur) + 1 /\ IsPrefix(out.cur, out'.cur)]_vars
  /\ []((obs.framed /\ obs.printed) => ~ obs.owed)

\* C13: every run of frame_sep leaves the frame error flag cleared, whether
\* the frame is emitted or skipped; and, in a stream of frames whose only faults
\* are inside datasets, the root object written in dict mode for a frame that
\* holds datasets of legal shape only, none with FIELD_KO, and is closed by ETX
\* holds "_tvalide": 1, whatever happened in the frames before it.
C13_FlagClearedEachFrame ==
  /\ [][obs'.seps = obs.seps + 1 => ~ tp'.ferr]_vars
  /\ []((Settled /\ DictMode /\ obs.framed /\ obs.wf = "closed" /\ obs.lastSep # -1
         /\ obs.hasDs /\ ~ obs.faulty /\ ~ obs.ko /\ ~ obs.eot)
        => obs.lastSep = 1)

\* root objects written in full: those frame_sep closed ("]\n" or "}\n", the
\* next one is opened at once), and the one main() closes after yyparse()

\* C14 (as stated): when the program has ended, as many root objects were
\* written as frames were emitted.
C14_OneRootObjectPerFrame ==
  pc = "exit" => (out.nobjs + (IF out.closed THEN 1 ELSE 0)) = obs.emitted

\* C14 (amended): while the stream is decoded, one root object has been closed
\* for each emitted frame and one more is open; when the program has ended,
\* that one was closed too: one root object more than frames were emitted.
C14_OneMoreThanFrames ==
  /\ pc # "exit" => (~ out.closed /\ (out.nobjs + (IF out.closed THEN 1 ELSE 0)) = obs.emitted)
  /\ pc = "exit" => (out.closed /\ (out.nobjs + (IF out.closed THEN 1 ELSE 0)) = obs.emitted + 1)

C14_Witness ==
  pc = "exit" /\ obs.emitted = 2 /\ out.cur = <<>> /\ (out.nobjs + (IF out.closed THEN 1 ELSE 0)) = 3

\* C15: every root object frame_sep has closed is syntactically valid JSON:
\* the bytes written between double quotes hold no quote, no backslash and no
\* control character, and a separating comma stands before every item but the
\* first.
C15_ValidJson ==
  LET JsonString(s) == \A i \in DOMAIN s : s[i] >= 32 /\ s[i] \notin {34, 92}
      JsonItem(it) ==
        /\ JsonString(it.label)
        /\ it.s # NULL => JsonString(it.s)
        /\ it.horodate # NULL => JsonString(it.horodate)
  IN \A i \in DOMAIN out.last :
       /\ JsonItem(out.last[i])
       /\ out.last[i].delim = (IF i = 1 THEN " " ELSE ",")

\* C16: with -s N (N >= 1), in a stream of regular frames: once a frame has
\* been emitted, frame_sep emits a frame if and only if it is the N-th frame
\* after the last emitted one; and nothing is written for a frame that is
\* not emitted.
C16_OneFrameOutOfN ==
  /\ [][(tp.skipframes >= 1 /\ obs.regular /\ obs.emitted >= 1
         /\ obs'.seps = obs.seps + 1)
        => (obs'.emitted = obs.emitted + 1 <=> obs.gap + 1 = tp.skipframes)]_vars
  /\ [](tp.framecount # 0 => out.cur = <<>>)

\* the stream is decoded after a filter configuration was loaded

\* C17: after a well-formed filter file was loaded, the tags enabled in etiq_en are the
\* tags T of the labels the file lists, and a valid dataset handed to
\* print_field is written to the root object if and only if its tag is in T.
C17_ExactlyEnabledTags ==
  /\ []((obs.cfg # NULL /\ ~ filter_mode /\ obs.cfgOk)
        => {etiq_en[i] : i \in DOMAIN etiq_en} = obs.listed)
  /\ [][(obs.cfg # NULL /\ ~ filter_mode /\ obs.cfgOk
         /\ CurAct = "dataset_ok" /\ yyss' # yyss
         /\ Val(2).etiq.type # "T_IGN")
        => (out'.cur # out.cur <=> Val(2).etiq.tok \in obs.listed)]_vars

\* one tag is enabled, a valid dataset with another tag was handed to
\* print_field and nothing was written for it
C17_Witness ==
  /\ obs.cfg # NULL /\ ~ filter_mode /\ obs.cfgOk /\ Cardinality(obs.listed) = 1
  /\ obs.printed /\ obs.regular /\ out.cur = <<>> /\ obs.emitted = 0

C19_OnlyWellFormedAccepted ==
  (obs.cfg # NULL /\ ~ obs.cfgOk)
  => /\ filter_mode
     /\ ~ obs.cfgSink
     /\ pc # "yybackup" => (yyresult # 0 /\ pc \in {"yyreturn", "exit_error"})

\* C20: V01PME. The field built for a label of ignored type holds neither
\* payload nor horodate, and the rule that hands it to print_field with
\* FIELD_OK writes nothing. The bytes
\* of the dataset count in the checksum: once a first dataset of ignored type
\* has been read, it was closed with FIELD_OK if and only if its checksum byte
\* is the one the wire format defines, and otherwise the frame is marked invalid.
C20_IgnoredDataset ==
  /\ [][(CurAct = "dataset_ok" /\ yyss' # yyss /\ Val(2).etiq.type = "T_IGN")
        => /\ out' = out
           /\ Val(2).horodate = NULL /\ Val(2).data.kind = "unset"]_vars
  /\ []((Settled /\ obs.regular /\ obs.wf = "in" /\ dialect = "V01PME" /\ WireComplete(dialect, obs.wire)
     /\ SubSeq(obs.wire, 1, Len(obs.wire) - 2) = IgnoredBody)
        => /\ obs.printed <=> WireCkOk(dialect, obs.wire)
           /\ tp.ferr <=> ~ WireCkOk(dialect, obs.wire)
           /\ out.cur = <<>>)

\* an ignored dataset with a wrong checksum byte was read: nothing written,
\* the frame is marked invalid
C20_Witness ==
  /\ Settled /\ obs.regular /\ obs.wf = "in" /\ dialect = "V01PME" /\ WireComplete(dialect, obs.wire)
     /\ SubSeq(obs.wire, 1, Len(obs.wire) - 2) = IgnoredBody
  /\ ~ WireCkOk(dialect, obs.wire) /\ tp.ferr /\ out.cur = <<>>

\* C21: a frame holding no dataset at all, STX directly followed by ETX, is
\* well formed: frame_sep is called once for it and the frame is not reported
\* invalid.
C21_EmptyFrameWellFormed ==
  (Settled /\ obs.regular /\ obs.wf = "closed"
   /\ ~ obs.hasDs /\ ~ obs.sawLF /\ ~ obs.eot /\ obs.wire = <<>>)
  => /\ obs.seps = 1
     /\ ~ obs.ko
     /\ (DictMode /\ obs.lastSep # -1) => obs.lastSep = 1

\* C23: whatever the sink has written with a horodate belongs to a label the
\* grammar of the active dialect places among the horodate-bearing ones; V01
\* output never holds a horodate. (A horodate-bearing label written with its
\* horodate and an empty payload is the witness.)
C23_HorodateOnlyIfPermitted ==
  \A items \in {out.cur, out.last} :
    \A i \in DOMAIN items :
      items[i].horodate # NULL
      => /\ dialect # "V01"
         /\ Etiq(dialect)[items[i].key].cls = "ET_H"

\* a horodate-bearing label was written with its horodate and no data
C23_Witness ==
  \E i \in DOMAIN out.cur :
    /\ out.cur[i].horodate # NULL /\ out.cur[i].horodate # <<>>
    /\ out.cur[i].s = <<>>
    /\ Etiq(dialect)[out.cur[i].key].cls = "ET_H"

\* C28: scanner and grammar of the dialect know the same labels: the tokens of
\* the label rules of the scanner are the tokens of the etiquette alternatives
\* of the grammar, and a label token the scanner has returned translates to a
\* symbol the grammar accepts at the start of a dataset.
C28_ScannerGrammarAgree ==
  LET toks == UNION {IF Labels(dialect)[i].tok = "ET_PAX_x"
                     THEN {PaxTok(w) : w \in PatWords(Labels(dialect)[i].pat)}
                     ELSE {Labels(dialect)[i].tok} : i \in DOMAIN Labels(dialect)}
  IN  /\ toks = DOMAIN Etiq(dialect)
      /\ yychar \in toks => yytranslate(dialect, yychar) \in {"ET_H", "ET_N", "ET_I"}

\* C24: STGE written with -p. The 18 members of the object come from pairwise
\* disjoint bit ranges of the 32-bit value: inverting any one bit of the value
\* changes at most one member.
C24_DisjointBitRanges ==
  (pc = "done" /\ yylval.kind = "stge" /\ out.cur # <<>>
   /\ out.cur[1].obj.kind = "stge")
  => \A b \in 0..31 :
       LET d == yyvs[1].data.v
           bit == IF b = 31 THEN -2147483647 - 1 ELSE 2 ^ b
           set == IF b = 31 THEN d < 0 ELSE BitField(d, b, 1) = 1
           other == print_stge_data(IF set THEN d - bit ELSE d + bit)
       IN  Cardinality({k \in 1..18 : other[k].v # out.cur[1].obj.v[k].v}) <= 1

\* C25: STGE written with -p. Every table of the decoder is read at an index
\* inside the table, whatever the 32-bit value, 0xFFFFFFFF included; for the
\* value 0 every bit field is 0, every boolean member shows its false variant
\* and every table-driven member entry 0 of its table.
C25_StgeIndexInRange ==
  (pc = "done" /\ yylval.kind = "stge" /\ out.cur # <<>>
   /\ out.cur[1].obj.kind = "stge")
  => LET o == out.cur[1].obj.v
     IN  /\ Len(o) = 18
         /\ \A k \in 1..18 : o[k].size > 0 => o[k].i \in 0..(o[k].size - 1)
         /\ yylval.parts = <<0>>
            => /\ \A k \in 1..18 : o[k].i = 0
               /\ [k \in {1, 2, 3, 4, 5, 6, 7, 10, 11, 12, 13, 14, 15, 16, 17, 18} |-> o[k].v]
                  = [k \in {1, 2, 3, 4, 5, 6, 7, 10, 11, 12, 13, 14, 15, 16, 17, 18} |->
                       CASE k \in {1, 2, 3} -> "ferme"
                         [] k = 4 -> "pas de surtension"
                         [] k = 5 -> "pas de depassement"
                         [] k = 6 -> "consommateur"
                         [] k = 7 -> "energie active positive"
                         [] k = 10 -> "horloge correcte"
                         [] k = 11 -> "mode historique"
                         [] k = 12 -> "desactivee"
                         [] k = 13 -> "New/Unlock"
                         [] k = 14 -> "compteur non synchronise"
                         [] k \in {15, 16} -> "Pas d'annonce"
                         [] OTHER -> "pas en cours"]

\* the value 0xFFFFFFFF was decoded: the cut-off member read entry 7 of its
\* table of 8, every two-bit table entry 3
C25_Witness ==
  /\ pc = "done" /\ yylval.kind = "stge" /\ yylval.parts = <<-1>>
  /\ out.cur # <<>> /\ out.cur[1].obj.kind = "stge"
  /\ out.cur[1].obj.v[2].i = 7 /\ out.cur[1].obj.v[18].i = 3

C22_SuffixReclassifies ==
  (pc \in {"dataset", "done"} /\ yylval.kind = "suffix"
   /\ yylval.etiq.unit = "U_SANS" /\ yylval.etiq.type = "T_INT")
  => /\ yyvs[1].data.v = yylval.parts[1]
     /\ yyvs[1].etiq.unit = (IF yylval.data[Len(yylval.data)] = 65 THEN "U_KVA"
                             ELSE IF yylval.data[Len(yylval.data)] = 87 THEN "U_KW"
                             ELSE "U_SANS")

\* PS 12kVA was made a field of value 12 and unit kVA
C22_Witness ==
  /\ pc = "dataset" /\ yylval.kind = "suffix" /\ yylval.etiq.tok = "ET_PS"
  /\ yylval.data = <<49, 50, 107, 86, 65>>
  /\ yyvs[1].data.v = 12 /\ yyvs[1].etiq.unit = "U_KVA"

\* C29: with -z, no frame skipped and no label filter, a field that is not of
\* ignored type is left out if and only if its payload is numeric (integer or
\* hex type) and its value is 0: string and profile fields are written
\* whatever they hold.
C29_ZeroMasking ==
  (pc = "done" /\ "MASKZEROES" \in tp.optflags /\ yyvs[1].etiq.type # "T_IGN")
  => (out.cur = <<>>
      <=> (yyvs[1].etiq.type \in {"T_INT", "T_HEX"} /\ yyvs[1].data.v = 0))

\* with -z, EAST 000 was left out
C29_Witness ==
  /\ pc = "done" /\ "MASKZEROES" \in tp.optflags
  /\ yylval.etiq.tok = "ET_EAST" /\ yylval.data = <<48, 48, 48>>
  /\ out.cur = <<>>

\* C30: whatever the input and wherever it ends, the run comes to main()'s
\* return and to nothing else: the process is never stopped inside the
\* parser, the closing delimiter of the root has been written when main()
\* returns, and from then on nothing is written and no sink function runs.
C30_CleanTermination ==
  /\ [](pc # "crashed")
  /\ [](pc = "exit" => out.closed)
  /\ [][pc # "exit"]_vars

\* C31: make_field() stores the payload as the type nibble of the etiquette
\* says (string and profile: the payload itself; hex: its base-16 value;
\* default: its base-10 value; ignored: nothing), and the member of the union
\* print_field() reads, for the zero masking and for the item it writes, is the
\* member make_field() stored
C31_PayloadAgreesWithType ==
  pc \in {"dataset", "done"} =>
    LET f == yyvs[1]
        type == f.etiq.type
        \* the member print_field() formats: "%s" of data.s or "%ld" of data.i
        reads == IF f.etiq.unit = "U_SANS" /\ type \in {"T_STRING", "T_PROFILE"}
                 THEN "s" ELSE "i"
    IN  /\ type = yylval.etiq.type
        /\ type = "T_IGN" => f.data.kind = "unset"
        /\ type \in {"T_STRING", "T_PROFILE"} => f.data = [kind |-> "s", v |-> yylval.data]
        /\ type \in {"T_HEX", "T_INT"} => f.data.kind = "i"
        /\ (yylval.kind \in {"stge", "suffix"} /\ f.data.kind = "i")
             => f.data.v = yylval.parts[1]
        /\ ("MASKZEROES" \in tp.optflags /\ type \notin {"T_IGN", "T_STRING", "T_PROFILE"})
             => f.data.kind = "i"
        /\ (pc = "done" /\ out.cur # <<>>) => f.data.kind = reads

\* a day profile, a hex payload and a decimal payload have each been written
C31_Witness ==
  /\ pc = "done"
  /\ out.cur # <<>>
  /\ \/ yylval.kind = "pjour" /\ yyvs[1].data.kind = "s" /\ yyvs[1].data.v # <<>>
     \/ yylval.kind = "stge" /\ yyvs[1].data.v = 65536 /\ "PARSESTGE" \notin tp.optflags

\* C34: V02, the rule field_horodate without payload
\* (etiquette_horodate TOK_SEP TOK_HDATE TOK_SEP TOK_SEP) is only ever reduced
\* for a label of string type, so that make_field() never hands the absent
\* payload to strtol()
C34_HorodateOnlyIsString ==
  (dialect = "V02" /\ CurAct = "field_h") => Val(1).type = "T_STRING"

\* C35: a field of the V01 or of the V02 dialect reaches print_field() with
\* the unit its etiquette has in the grammar, whatever its payload: the
\* suffix of a payload changes a unit in the V01PME dialect only
C35_SuffixOnlyInPME ==
  (dialect # "V01PME" /\ pc \in {"dataset", "done"})
    => yyvs[1].etiq.unit = Etiq(dialect)[yylval.etiq.tok].unit

\* C36: a payload of one to eight hex digits under a label of hex type: the
\* integer make_field() stores, and the one print_field() writes with "%ld",
\* is the base-16 value of the payload, a number of 0..0xFFFFFFFF (its upper
\* half is the value of the digits before the last four, its lower half the
\* value of the last four)
C36_HexValueUnsigned ==
  LET data == yylval.data
      n == Len(data)
      hi == IF n > 4 THEN strtol(SubSeq(data, 1, n - 4), 16).val ELSE 0
      lo == strtol(SubSeq(data, IF n > 4 THEN n - 3 ELSE 1, n), 16).val
      Is(v) == v >= 0 /\ v \div 65536 = hi /\ v % 65536 = lo
  IN  (/\ pc \in {"dataset", "done"}
       /\ yylval.etiq.type = "T_HEX"
       /\ data # NULL /\ n \in 1..8
       /\ \A i \in 1..n : DigitVal(data[i]) < 16)
      => /\ Is(yyvs[1].data.v)
         /\ (pc = "done" /\ out.cur # <<>> /\ out.cur[1].obj.kind = "plain")
              => Is(out.cur[1].item.v)

\* C37: STGE written with -p: every member of the object that is read from a
\* table of strings is read from an entry that holds a string, never from an
\* entry that holds the null pointer
C37_StgeNoNullEntry ==
  (pc = "done" /\ out.cur # <<>> /\ out.cur[1].obj.kind = "stge")
    => \A k \in DOMAIN out.cur[1].obj.v :
         out.cur[1].obj.v[k].size > 0 => out.cur[1].obj.v[k].v # "NULL"

\* C32: every buffer the scanner allocates is released exactly once. While
\* yyparse() runs, the buffers not yet released are exactly those the parser
\* holds (its lookahead and the symbols on its stack); print_field() has
\* returned and free_field() has run: none is left; yyparse() has returned,
\* on whatever path: none is left
C32_BuffersReleasedOnce ==
  /\ pc = "yybackup" => obs.live = yyreturn
  /\ obs.printed => obs.live = 0
  /\ pc \in {"yyreturn", "exit"} => obs.live = 0

\* a syntax error arrives while the parser holds two buffers: the payload of
\* the field on its stack and the lookahead, both about to be destroyed
C32_Witness ==
  /\ SyntaxError
  /\ ErrDepth(dialect, yyss) > 0
  /\ yypopstack(dialect, yyss, yyvs, ErrDepth(dialect, yyss)) > 0
  /\ obs.live = 2

\* C33 as stated: the parser stack is never deeper than what stands before a
\* field (the start state, frames, TOK_STX, datasets, FIELD_START) and the
\* longest rule, however many datasets the frames hold, and the buffers held
\* at any time, by the stack and by the lookahead together, are at most one
\* horodate and at most one payload
C33_OneDatasetBuffers ==
  LET longest == CHOOSE n \in 0..20 :
                   /\ \E i \in DOMAIN Rules(dialect) : Rules(dialect)[i].len = n
                   /\ \A i \in DOMAIN Rules(dialect) : Rules(dialect)[i].len <= n
      fields == {"field", "field_horodate", "field_nodate", "field_ignored"}
      kind(i) == yystos[dialect][yyss[i]]
      horodates == {i \in 2..Len(yyss) :
                      \/ kind(i) = "TOK_HDATE"
                      \/ kind(i) \in fields /\ yyvs[i].horodate # NULL}
      payloads == {i \in 2..Len(yyss) :
                     \/ kind(i) = "TOK_DATA"
                     \/ /\ kind(i) \in fields
                        /\ yyvs[i].etiq.type \in {"T_STRING", "T_PROFILE"}
                        /\ yyvs[i].data.v # NULL}
  IN  pc = "yybackup" =>
        /\ Len(yyss) <= 5 + longest
        /\ Cardinality(horodates) + (IF yychar = "TOK_HDATE" THEN 1 ELSE 0) <= 1
        /\ Cardinality(payloads) + (IF yychar = "TOK_DATA" THEN 1 ELSE 0) <= 1

\* C33, amended: the same bound on the depth of the stack; the stack holds at
\* most one horodate and at most one payload, the lookahead may be one more
\* buffer, and no other buffer is allocated
C33_BoundedWorkingState ==
  LET longest == CHOOSE n \in 0..20 :
                   /\ \E i \in DOMAIN Rules(dialect) : Rules(dialect)[i].len = n
                   /\ \A i \in DOMAIN Rules(dialect) : Rules(dialect)[i].len <= n
      fields == {"field", "field_horodate", "field_nodate", "field_ignored"}
      kind(i) == yystos[dialect][yyss[i]]
      horodates == {i \in 2..Len(yyss) :
                      \/ kind(i) = "TOK_HDATE"
                      \/ kind(i) \in fields /\ yyvs[i].horodate # NULL}
      payloads == {i \in 2..Len(yyss) :
                     \/ kind(i) = "TOK_DATA"
                     \/ /\ kind(i) \in fields
                        /\ yyvs[i].etiq.type \in {"T_STRING", "T_PROFILE"}
                        /\ yyvs[i].data.v # NULL}
  IN  /\ obs.live <= 3
      /\ pc = "yybackup" =>
           /\ Len(yyss) <= 5 + longest
           /\ Cardinality(horodates) <= 1
           /\ Cardinality(payloads) <= 1
           /\ obs.live = Cardinality(horodates) + Cardinality(payloads)
                         + (IF yychar \in {"TOK_HDATE", "TOK_DATA"} THEN 1 ELSE 0)

\* in a frame after the first, the stack holds a whole V02 field with its
\* horodate: ten states, one buffer
C33_Witness ==
  /\ pc = "yybackup"
  /\ obs.emitted >= 1
  /\ Len(yyss) = 10
  /\ obs.live = 1

\* C38: in the root object being written and in the last one closed, the
\* first item ("_tvalide" included) is written after a blank and every later
\* item after one comma
C38_CommaBetweenItems ==
  \A items \in {out.cur, out.last} :
    \A i \in DOMAIN items :
      items[i].delim = IF i = 1 THEN " " ELSE ","

\* a root object was closed whose zero-valued dataset was masked or filtered
\* out between two written ones: two items and "_tvalide"
C38_Witness ==
  /\ "MASKZEROES" \in tp.optflags \/ etiq_en # NoFilter
  /\ Len(out.last) = 3
  /\ out.last[3].key = "_tvalide"
  /\ out.last[3].delim = ","

\* C39: print-to-buffer build, buffer of at least one byte: every print call
\* leaves 0 < ticbufavail <= ticbufsize, no store of vsnprintf() reaches past
\* the end of the buffer, the size handed to the frame callback is at most
\* ticbufsize, and after frame_sep() has emitted a frame the buffer has been
\* reset: its only content is the opening delimiter, written at offset 0.
C39_BufferWithinBounds ==
  out.last # "main" =>
    /\ 0 < out.lo /\ out.lo <= out.ticbufavail
    /\ out.ticbufavail <= out.ticbufsize
    /\ out.hi <= out.ticbufsize
    /\ out.at + out.wrote <= out.ticbufsize
    /\ out.cbsize <= out.ticbufsize
    /\ out.last = "frame_sep" =>
         /\ out.cbsize >= 0
         /\ out.at = 0
         /\ out.ticbufsize - out.ticbufavail <= 1

\* a frame one of whose prints did not fit was handed to the callback, and the
\* buffer was reset after it
C39_Witness ==
  /\ out.last = "frame_sep" /\ out.cbtrunc /\ out.cbsize > 1
  /\ out.ticbufavail = out.ticbufsize - 1
  /\ out.hi = out.ticbufsize

\* C2: V01 and V01PME, the scanner fed LF label SP data SP ck CR: its last
\* token is the verdict on the checksum, and it is FIELD_OK if and only if ck is
\* ((sum of the label, the separator after it and the data) & 0x3F) + 0x20,
\* the separator before ck left out, in both scanners alike.
C2_TrailingSeparatorCompensated ==
  (pc = "scan" /\ buf = <<>>)
  => /\ yychar \in {"FIELD_OK", "FIELD_KO"}
     /\ yychar = "FIELD_OK" <=> WireCkOk(dialect, obs.wire)

C2_Witness ==
  pc = "scan" /\ dialect = "V01" /\ buf = <<>> /\ yychar = "FIELD_OK"

====
